---- MODULE Spec2Model ----
(***************************************************************************)
(* Model of the Slack-List fetch pipeline of slackgantt:                   *)
(*   services/list_service.py  (ListService, parse_date_value,             *)
(*                              extract_text_from_rich_text)               *)
(*   app.py                    (get_cached_tasks, handle_gantt_command)    *)
(*                                                                         *)
(* The remote Slack API is the environment: every remote call of an        *)
(* operation gets its outcome (exception, non-ok answer, ok answer with a  *)
(* payload) as an input of the action.                                     *)
(***************************************************************************)
EXTENDS Integers, Sequences, FiniteSets, TLC

\* Longest item list one items.list answer carries.
MaxItems == 2
\* The clock of the application stops at CACHE_TTL_SECONDS + MaxClock.
MaxClock == 62

\* app.py:68
CACHE_TTL_SECONDS == 60

ListIds == {"L1", "L2"}

(***************************************************************************)
(* Raw JSON values of a field.  Every value but None is a Python string;   *)
(* the tag says what the characters of the string are:                     *)
(*   none    JSON null / Python None                                       *)
(*   str     a text that is neither JSON nor a date ("" is the empty text) *)
(*   iso     "YYYY-MM-DD" naming calendar day d                            *)
(*   isobad  "YYYY-MM-DD" shaped, but no calendar date (month 13)          *)
(*   secs    ten decimal digits, a Unix time in seconds falling on day d   *)
(*   huge    23 decimal digits                                             *)
(*   rich    JSON of [{"elements":[{"elements":[leaf, ...]}]}], each leaf  *)
(*           {"type":"text","text":l[i]}                                   *)
(*   richnull  the same with one leaf whose "text" is null                 *)
(***************************************************************************)
NoneV == [t |-> "none", s |-> "", d |-> 0, l |-> <<>>]
Str(s) == [t |-> "str", s |-> s, d |-> 0, l |-> <<>>]
Iso(d) == [t |-> "iso", s |-> "", d |-> d, l |-> <<>>]
IsoBad == [t |-> "isobad", s |-> "", d |-> 0, l |-> <<>>]
Secs(d) == [t |-> "secs", s |-> "", d |-> d, l |-> <<>>]
Huge == [t |-> "huge", s |-> "", d |-> 0, l |-> <<>>]
Rich(l) == [t |-> "rich", s |-> "", d |-> 0, l |-> l]
RichNull == [t |-> "richnull", s |-> "", d |-> 0, l |-> <<>>]

\* Python truthiness of a raw value: None and "" are falsy.
Truthy(v) == ~(v.t = "none" \/ (v.t = "str" /\ v.s = ""))

\* The characters of a string-typed raw value that is not plain text.
Repr(v) ==
    CASE v.t = "iso" -> IF v.d = 1 THEN "2024-01-01"
                        ELSE IF v.d = 2 THEN "2024-01-02" ELSE "2024-01-03"
      [] v.t = "isobad" -> "2024-13-45"
      [] v.t = "secs" -> IF v.d = 1 THEN "1704110400"
                         ELSE IF v.d = 2 THEN "1704196800" ELSE "1704283200"
      [] v.t = "huge" -> "99999999999999999999999"
      [] v.t = "none" -> "None"
      [] OTHER -> "[]"

\* " ".join(texts)
RECURSIVE Join(_)
Join(texts) ==
    IF Len(texts) = 0 THEN ""
    ELSE IF Len(texts) = 1 THEN texts[1]
    ELSE texts[1] \o " " \o Join(Tail(texts))

(***************************************************************************)
(* Two more raw values, for the decoder applied on its own:                *)
(*   json  a string s that is the JSON of a value that is no list: a       *)
(*         literal, a number, a quoted word                                *)
(*   tree  the JSON of a list, decoded: blocks is the list.  A member of   *)
(*         a list is [dict |-> whether it is a JSON object, ...]; the      *)
(*         "elements" of a block or of an element is [kind, items], kind   *)
(*         "missing", "null", "int", "str" or "list"; a leaf has a type    *)
(*         and a text [kind, s], kind "missing", "null", "int" or "str".   *)
(***************************************************************************)
Json(s) == [t |-> "json", s |-> s, d |-> 0, l |-> <<>>]
Tree(blocks) == [t |-> "tree", s |-> "", d |-> 0, l |-> <<>>, blocks |-> blocks]

\* str(json.loads(s)) for the JSON texts of this model.
PyStr(s) ==
    CASE s = "true" -> "True"
      [] s = "false" -> "False"
      [] s = "null" -> "None"
      [] s = "\"Alpha\"" -> "Alpha"
      [] OTHER -> s

\* for x in container.get("elements", []): None and a number are not
\* iterable; the characters of a string are no dicts and are skipped.
IterRaises(elements) == elements.kind \in {"null", "int"}
IterItems(elements) == IF elements.kind = "list" THEN elements.items ELSE <<>>

\* Lines 45-47: the "text" of every leaf of type "text", missing as "".
RECURSIVE LeafTexts(_)
LeafTexts(leaves) ==
    IF leaves = <<>> THEN <<>>
    ELSE (IF Head(leaves).dict /\ Head(leaves).type = "text"
          THEN <<IF Head(leaves).text.kind = "missing"
                 THEN [kind |-> "str", s |-> ""] ELSE Head(leaves).text>>
          ELSE <<>>) \o LeafTexts(Tail(leaves))

\* Lines 43-44 and 41-42: [exc, texts] of a list of elements, of blocks.
RECURSIVE ElementTexts(_)
ElementTexts(elements) ==
    IF elements = <<>> THEN [exc |-> FALSE, texts |-> <<>>]
    ELSE IF ~Head(elements).dict THEN ElementTexts(Tail(elements))
    ELSE IF IterRaises(Head(elements).elements)
    THEN [exc |-> TRUE, texts |-> <<>>]
    ELSE [exc |-> ElementTexts(Tail(elements)).exc,
          texts |-> LeafTexts(IterItems(Head(elements).elements))
                    \o ElementTexts(Tail(elements)).texts]
RECURSIVE BlockTexts(_)
BlockTexts(blocks) ==
    IF blocks = <<>> THEN [exc |-> FALSE, texts |-> <<>>]
    ELSE IF ~Head(blocks).dict THEN BlockTexts(Tail(blocks))
    ELSE IF IterRaises(Head(blocks).elements)
    THEN [exc |-> TRUE, texts |-> <<>>]
    ELSE LET here == ElementTexts(IterItems(Head(blocks).elements))
             rest == BlockTexts(Tail(blocks))
         IN [exc |-> here.exc \/ rest.exc, texts |-> here.texts \o rest.texts]

\* Line 48 for a decoded list: " ".join(texts) raises TypeError for a text
\* that is no string; "[...]" stands for str() of a non-empty list.
DecodeTree(blocks) ==
    LET r == BlockTexts(blocks)
    IN IF r.exc THEN [exc |-> TRUE, text |-> ""]
       ELSE IF r.texts = <<>>
       THEN [exc |-> FALSE, text |-> IF blocks = <<>> THEN "[]" ELSE "[...]"]
       ELSE IF \E i \in DOMAIN r.texts : r.texts[i].kind # "str"
       THEN [exc |-> TRUE, text |-> ""]
       ELSE [exc |-> FALSE, text |-> Join([i \in DOMAIN r.texts |-> r.texts[i].s])]

(***************************************************************************)
(* extract_text_from_rich_text: [exc, text].  A plain text fails JSON      *)
(* decoding and comes back as it is; a decoded non-list is stringified;    *)
(* the leaves of a block list are joined by " "; a list without leaves is  *)
(* stringified; a null leaf text makes " ".join raise TypeError.           *)
(***************************************************************************)
extract_text_from_rich_text(v) ==
    CASE v.t = "str" -> [exc |-> FALSE, text |-> v.s]
      [] v.t = "rich" -> [exc |-> FALSE,
                          text |-> IF Len(v.l) > 0 THEN Join(v.l) ELSE Repr(v)]
      [] v.t = "richnull" -> [exc |-> TRUE, text |-> ""]
      [] v.t = "json" -> [exc |-> FALSE, text |-> PyStr(v.s)]
      [] v.t = "tree" -> DecodeTree(v.blocks)
      [] OTHER -> [exc |-> FALSE, text |-> Repr(v)]

(***************************************************************************)
(* parse_date_value: [exc, some, day].  Falsy -> None; the ISO form -> its *)
(* date; ten or more digits -> datetime.fromtimestamp, whose OverflowError *)
(* for a value outside time_t is not among the caught exceptions; anything *)
(* else goes to dateutil, which rejects the texts of this model.           *)
(***************************************************************************)
DateNone == [exc |-> FALSE, some |-> FALSE, day |-> 0]
DateOf(d) == [exc |-> FALSE, some |-> TRUE, day |-> d]
DateRaise == [exc |-> TRUE, some |-> FALSE, day |-> 0]

parse_date_value(v) ==
    IF ~Truthy(v) THEN DateNone
    ELSE CASE v.t = "iso" -> DateOf(v.d)
           [] v.t = "secs" -> DateOf(v.d)
           [] v.t = "huge" -> DateRaise
           [] OTHER -> DateNone

(***************************************************************************)
(* Python dicts are functions whose DOMAIN is the key set.                 *)
(***************************************************************************)
EmptyDict == [k \in {} |-> ""]
DictSet(dict, key, val) ==
    [k \in DOMAIN dict \cup {key} |-> IF k = key THEN val ELSE dict[k]]
DictPop(dict, key) == [k \in DOMAIN dict \ {key} |-> dict[k]]
SetMax(S) == CHOOSE x \in S : \A y \in S : y <= x

\* config.py: the human-readable column names.
name_column == "Name"
start_date_column == "Start Date"
end_date_column == "End Date"
category_column == "category"
notes_column == "notes"

\* _get_column_id: mapping.get(column_name); None is written "" (both are
\* falsy and neither is ever a key of field_by_id).
get_column_id(mapping, column_name) ==
    IF column_name \in DOMAIN mapping THEN mapping[column_name] ELSE ""

\* field_by_id: key -> value of the last field entry with that key.
FieldById(fields) ==
    LET keys == {fields[i].key : i \in DOMAIN fields} \ {""}
    IN [k \in keys |->
          fields[SetMax({i \in DOMAIN fields : fields[i].key = k})].value]

\* field_text_by_id: key -> text of the last entry with that key and a text.
FieldTextById(fields) ==
    LET idx == {i \in DOMAIN fields : fields[i].key # "" /\ fields[i].text # ""}
    IN [k \in {fields[i].key : i \in idx} |->
          fields[SetMax({i \in idx : fields[i].key = k})].text]

NameFallbackKeys == <<"name", "Name", "title", "Title">>
StartFallbackKeys == <<"date", "start_date", "start">>

\* The name of lines 316-318: the mapped column's display text, else its
\* decoded raw value.
MappedName(fv, ft, name_col_id) ==
    IF name_col_id = "" THEN [exc |-> FALSE, text |-> ""]
    ELSE IF name_col_id \in DOMAIN ft THEN [exc |-> FALSE, text |-> ft[name_col_id]]
    ELSE extract_text_from_rich_text(
             IF name_col_id \in DOMAIN fv THEN fv[name_col_id] ELSE Str(""))

\* The loop of lines 322-328 from position i: the first key that the record
\* holds decides, whether or not its text is empty.
RECURSIVE FallbackName(_, _, _)
FallbackName(fv, ft, i) ==
    IF i > Len(NameFallbackKeys) THEN [exc |-> FALSE, text |-> ""]
    ELSE IF NameFallbackKeys[i] \in DOMAIN fv
         THEN extract_text_from_rich_text(fv[NameFallbackKeys[i]])
    ELSE IF NameFallbackKeys[i] \in DOMAIN ft
         THEN [exc |-> FALSE, text |-> ft[NameFallbackKeys[i]]]
    ELSE FallbackName(fv, ft, i + 1)

\* The loop of lines 344-348 from position i: the first key whose value
\* parses decides.
RECURSIVE FallbackStart(_, _)
FallbackStart(fv, i) ==
    IF i > Len(StartFallbackKeys) THEN DateNone
    ELSE IF StartFallbackKeys[i] \in DOMAIN fv
         THEN LET p == parse_date_value(fv[StartFallbackKeys[i]])
              IN IF p.exc \/ p.some THEN p ELSE FallbackStart(fv, i + 1)
    ELSE FallbackStart(fv, i + 1)

\* parse_date_value(field_by_id.get(col_id)) of a mapped date column.
MappedDate(fv, col_id) ==
    IF col_id = "" THEN DateNone
    ELSE parse_date_value(IF col_id \in DOMAIN fv THEN fv[col_id] ELSE NoneV)

\* Variant that never looks the option id up.
CategoryRawId(fv, category_col_id, options) ==
    IF category_col_id = "" \/ category_col_id \notin DOMAIN fv THEN NoneV
    ELSE IF ~Truthy(fv[category_col_id]) THEN NoneV ELSE fv[category_col_id]

\* Lines 359-363.
Category(fv, category_col_id, options) ==
    IF category_col_id = "" \/ category_col_id \notin DOMAIN fv THEN NoneV
    ELSE LET category_id == fv[category_col_id]
         IN IF ~Truthy(category_id) THEN NoneV
            ELSE IF category_id.t = "str" /\ category_id.s \in DOMAIN options
                 THEN Str(options[category_id.s])
            ELSE category_id

\* Lines 366-369: [exc, text]; text "" stands for notes = None or "".
Notes(fv, notes_col_id) ==
    IF notes_col_id = "" \/ notes_col_id \notin DOMAIN fv
    THEN [exc |-> FALSE, text |-> ""]
    ELSE IF ~Truthy(fv[notes_col_id]) THEN [exc |-> FALSE, text |-> ""]
    ELSE extract_text_from_rich_text(fv[notes_col_id])

\* Lines 372-376.
Metadata(fv, notes, used_col_ids) ==
    LET copied == {k \in DOMAIN fv : k \notin used_col_ids /\ Truthy(fv[k])}
        base == IF notes # "" THEN {"notes"} ELSE {}
    IN [k \in base \cup copied |-> IF k \in copied THEN fv[k] ELSE Str(notes)]

NoTask == [r |-> "none"]
Raised == [r |-> "raise"]

\* Variant that accepts a record without a name.
NameMissingNever(name) == FALSE
\* The checks of lines 330-331 and 350-352.
NameMissing(name) == name = ""
StartMissing(start) == ~start.some

(***************************************************************************)
(* _parse_item_to_task: [r |-> "task", task], NoTask (the record is        *)
(* rejected) or Raised (an exception leaves the method).                   *)
(***************************************************************************)
parse_item_to_task(item, mapping, options) ==
    LET fv == FieldById(item.fields)
        ft == FieldTextById(item.fields)
        name_col_id == get_column_id(mapping, name_column)
        start_col_id == get_column_id(mapping, start_date_column)
        end_col_id == get_column_id(mapping, end_date_column)
        category_col_id == get_column_id(mapping, category_column)
        notes_col_id == get_column_id(mapping, notes_column)
        n1 == MappedName(fv, ft, name_col_id)
        n2 == IF n1.exc \/ n1.text # "" THEN n1 ELSE FallbackName(fv, ft, 1)
        s1 == MappedDate(fv, start_col_id)
        e1 == MappedDate(fv, end_col_id)
        s2 == IF s1.exc \/ s1.some THEN s1 ELSE FallbackStart(fv, 1)
        notes == Notes(fv, notes_col_id)
    IN  IF n2.exc THEN Raised
        ELSE IF NameMissing(n2.text) THEN NoTask
        ELSE IF s1.exc \/ e1.exc \/ s2.exc THEN Raised
        ELSE IF StartMissing(s2) THEN NoTask
        ELSE IF notes.exc THEN Raised
        ELSE [r |-> "task",
              task |-> [id |-> item.id,
                        name |-> n2.text,
                        start_date |-> s2.day,
                        end_date |-> IF e1.some THEN e1.day ELSE s2.day,
                        category |-> Category(fv, category_col_id, options),
                        metadata |-> Metadata(fv, notes.text,
                                       {name_col_id, start_col_id, end_col_id,
                                        category_col_id, notes_col_id})]]

(***************************************************************************)
(* tasks.sort(key=lambda t: (t.start_date, t.name)): a stable sort.        *)
(* Python orders strings by code point; TextOrder lists the texts of this  *)
(* model in that order.                                                    *)
(***************************************************************************)
TextOrder == <<"", "Alpha", "Alpha Beta", "Beta", "Beta Alpha", "None", "[]">>
TextRank(s) == CHOOSE i \in DOMAIN TextOrder : TextOrder[i] = s
StrLess(a, b) == TextRank(a) < TextRank(b)

\* (a.start_date, a.name) < (b.start_date, b.name)
KeyLess(a, b) ==
    \/ a.start_date < b.start_date
    \/ a.start_date = b.start_date /\ StrLess(a.name, b.name)

RECURSIVE Insert(_, _)
Insert(t, s) ==
    IF s = <<>> THEN <<t>>
    ELSE IF KeyLess(t, s[1]) THEN <<t>> \o s
    ELSE <<s[1]>> \o Insert(t, Tail(s))

RECURSIVE SortTasks(_)
SortTasks(s) ==
    IF s = <<>> THEN <<>>
    ELSE Insert(s[Len(s)], SortTasks(SubSeq(s, 1, Len(s) - 1)))

(***************************************************************************)
(* The remote lists.  A field entry is [key, value, text] (text "" when    *)
(* the entry carries no display text); a record is [id, fields].           *)
(***************************************************************************)
Field(key, value, text) == [key |-> key, value |-> value, text |-> text]

RecBeta3 == [id |-> "I1", fields |->
    <<Field("Col_name", Rich(<<"Beta">>), "Beta"),
      Field("Col_start", Iso(3), ""),
      Field("Col_cat", Str("Opt1"), "")>>]
RecAlpha1 == [id |-> "I2", fields |->
    <<Field("Col_name", Str("Alpha"), ""),
      Field("Col_start", Secs(1), ""),
      Field("Col_end", Iso(2), "")>>]
RecBeta1 == [id |-> "I3", fields |->
    <<Field("Col_name", Rich(<<"Beta">>), ""),
      Field("Col_start", Iso(1), ""),
      Field("name", Str("Alpha"), ""),
      Field("date", Iso(2), "")>>]
RecBadDate == [id |-> "I4", fields |->
    <<Field("name", Str("Alpha"), ""),
      Field("date", Str("soon"), ""),
      Field("start", IsoBad, "")>>]
RecHugeDate == [id |-> "I5", fields |->
    <<Field("Col_name", Str("Alpha"), ""),
      Field("Col_start", Huge, "")>>]
RecNoName == [id |-> "I6", fields |->
    <<Field("Col_name", Str(""), ""),
      Field("date", Iso(1), "")>>]
RecTitle2 == [id |-> "I7", fields |->
    <<Field("title", Str("Alpha"), ""),
      Field("start", Iso(2), ""),
      Field("Col_cat", Str("Opt1"), "")>>]

RawRecordsL1 == {RecBeta3, RecAlpha1, RecBeta1, RecHugeDate}
RawRecordsL2 == {RecNoName, RecBadDate, RecTitle2}

\* The item lists an items.list answer can carry: records of the list, no
\* record twice, at most MaxItems of them.
RECURSIVE SeqsUpTo(_, _)
SeqsUpTo(S, n) ==
    IF n = 0 THEN {<<>>}
    ELSE LET shorter == SeqsUpTo(S, n - 1)
         IN shorter \cup {Append(q, r) : q \in {x \in shorter : Len(x) = n - 1},
                                          r \in S}
NoRepeat(q) == \A i, j \in DOMAIN q : q[i] = q[j] => i = j
ItemSeqsL1 == {q \in SeqsUpTo(RawRecordsL1, MaxItems) : NoRepeat(q)}
ItemSeqsL2 == {q \in SeqsUpTo(RawRecordsL2, MaxItems) : NoRepeat(q)}

\* A schema column: {"name", "key", "type", "options": {"choices": [...]}}.
Col(name, key, type, has_options, choices) ==
    [name |-> name, key |-> key, type |-> type,
     has_options |-> has_options, choices |-> choices]
Choice(value, label) == [value |-> value, label |-> label]

SchemaFull ==
    <<Col("Name", "Col_name", "text", FALSE, <<>>),
      Col("Start Date", "Col_start", "date", FALSE, <<>>),
      Col("End Date", "Col_end", "date", FALSE, <<>>),
      Col("category", "Col_cat", "select", TRUE, <<Choice("Opt1", "Students")>>)>>
SchemaNoSelect ==
    <<Col("Name", "Col_name", "text", FALSE, <<>>),
      Col("Start Date", "Col_start", "date", FALSE, <<>>),
      Col("Status", "Col_status", "select", FALSE, <<>>)>>
SchemaOdd ==
    <<Col("Name", "Col_old", "text", FALSE, <<>>),
      Col("Name", "Col_name", "text", FALSE, <<>>),
      Col("", "Col_anon", "text", TRUE, <<Choice("Opt3", "Hidden")>>),
      Col("category", "Col_cat", "select", TRUE,
          <<Choice("Opt1", "Projects"), Choice("Opt2", "")>>)>>

\* Outcome of one items.list call: the call raises, answers non-ok, or
\* answers ok with items.
NoItemsCall == [kind |-> "none", items |-> <<>>]
ItemsFailures ==
    {[kind |-> "raise", items |-> <<>>], [kind |-> "error", items |-> <<>>]}
ItemsOutcomesL1 == ItemsFailures \cup {[kind |-> "ok", items |-> q] : q \in ItemSeqsL1}
ItemsOutcomesL2 == ItemsFailures \cup {[kind |-> "ok", items |-> q] : q \in ItemSeqsL2}
ItemsOutcomes(list_id) == IF list_id = "L1" THEN ItemsOutcomesL1 ELSE ItemsOutcomesL2
\* Discovery uses its sample for its emptiness and its first id only: one
\* non-empty answer per list stands for all of them.
SampleRecord(list_id) == IF list_id = "L1" THEN RecBeta3 ELSE RecTitle2
SampleOutcomes(list_id) ==
    ItemsFailures \cup {[kind |-> "ok", items |-> <<>>],
                        [kind |-> "ok", items |-> <<SampleRecord(list_id)>>]}

\* Outcome of one items.info call; title "" stands for an answer without
\* "title".
NoSchemaCall == [kind |-> "none", title |-> "", schema |-> <<>>]
SchemaFailures ==
    {[kind |-> "raise", title |-> "", schema |-> <<>>],
     [kind |-> "error", title |-> "", schema |-> <<>>]}
SchemaOutcomesL1 ==
    SchemaFailures \cup
    {[kind |-> "ok", title |-> "Roadmap", schema |-> <<>>],
     [kind |-> "ok", title |-> "Roadmap", schema |-> SchemaFull],
     [kind |-> "ok", title |-> "Roadmap", schema |-> SchemaNoSelect]}
SchemaOutcomesL2 ==
    SchemaFailures \cup
    {[kind |-> "ok", title |-> "", schema |-> <<>>],
     [kind |-> "ok", title |-> "", schema |-> SchemaOdd]}
SchemaOutcomes(list_id) == IF list_id = "L1" THEN SchemaOutcomesL1 ELSE SchemaOutcomesL2

(***************************************************************************)
(* State.  ListService: user_token (hasToken: whether it is set), _cache,  *)
(* _column_mapping, category_options, _list_info_cache, _csv_cache.        *)
(* app.py: _task_cache, _cache_timestamp, the clock, config.SLACK_LIST_ID. *)
(* last: the call being returned, its remote outcomes and its return      *)
(* value (Idle between calls); prev: the application call before it.       *)
(* call: a function of the module applied on its own, with its result.     *)
(* threads: position and locals of each thread inside fetch_list_items;    *)
(* observed: what the last read of the cache saw; remote: what the Slack   *)
(* API answers for each list while the threads run; before: the           *)
(* attributes of the service when the threads started.                     *)
(* CanvasService: _last_file_id (0 for None).  Slack: uploaded, the number *)
(* of chart files uploaded so far, file n being the n-th; deleted, the     *)
(* files files.delete removed; shown, the file of the chart section the    *)
(* last successful canvas edit wrote (0 before the first).                 *)
(***************************************************************************)
VARIABLES hasToken, cache, column_mapping, category_options,
          list_info_cache, csv_cache,
          task_cache, cache_timestamp, now, slack_list_id, last, prev,
          call, threads, observed, remote, before,
          last_file_id, uploaded, deleted, shown

kvars == <<last_file_id, uploaded, deleted, shown>>
cvars == <<threads, observed, remote, before>>
svars == <<hasToken, cache, column_mapping, category_options,
           list_info_cache, csv_cache, call, cvars, kvars>>
avars == <<task_cache, cache_timestamp, now, slack_list_id, prev>>
vars == <<hasToken, cache, column_mapping, category_options,
          list_info_cache, csv_cache,
          task_cache, cache_timestamp, now, slack_list_id, last, prev,
          call, threads, observed, remote, before,
          last_file_id, uploaded, deleted, shown>>

\* _fetch_items_from_api: [exc, items]; a non-ok answer gives [].
fetch_items_from_api(o) ==
    IF o.kind = "raise" THEN [exc |-> TRUE, items |-> <<>>]
    ELSE IF o.kind = "ok" THEN [exc |-> FALSE, items |-> o.items]
    ELSE [exc |-> FALSE, items |-> <<>>]

DefaultTitle(list_id) == "List " \o list_id

\* _fetch_list_schema: [schema, info]; exceptions and non-ok answers give [].
fetch_list_schema(list_id, info, o) ==
    IF o.kind = "ok"
    THEN [schema |-> o.schema,
          info |-> IF list_id \in DOMAIN info THEN info
                   ELSE DictSet(info, list_id,
                          [title |-> IF o.title # "" THEN o.title
                                     ELSE DefaultTitle(list_id),
                           description |-> ""])]
    ELSE [schema |-> <<>>, info |-> info]

\* Line 224.
ColumnIsMapped(col) == col.name # "" /\ col.key # ""
\* Variant that reads the options of an entry of any type.
IsSelectIgnoringType(col) == col.has_options
\* Line 229.
IsSelect(col) == col.type = "select" /\ col.has_options
\* Line 234.
ChoiceIsMapped(choice) == choice.value # "" /\ choice.label # ""

\* Lines 219-226: a later entry of the same display name overwrites.
BuildColumnMapping(schema) ==
    LET idx == {i \in DOMAIN schema : ColumnIsMapped(schema[i])}
    IN [n \in {schema[i].name : i \in idx} |->
          schema[SetMax({i \in idx : schema[i].name = n})].key]

\* Lines 229-236: a later choice of the same option id overwrites.
BuildCategoryMapping(schema) ==
    LET cols == {i \in DOMAIN schema : IsSelect(schema[i])}
        pairs == UNION {{<<i, j>> : j \in {j \in DOMAIN schema[i].choices :
                                     ChoiceIsMapped(schema[i].choices[j])}} :
                        i \in cols}
        at(p) == schema[p[1]].choices[p[2]]
        later(p, q) == p[1] > q[1] \/ (p[1] = q[1] /\ p[2] >= q[2])
    IN [v \in {at(p).value : p \in pairs} |->
          at(CHOOSE p \in pairs : at(p).value = v
               /\ \A q \in pairs : at(q).value = v => later(p, q)).label]

\* Line 195.
AlreadyDiscovered(list_id, cm, co) ==
    list_id \in DOMAIN cm /\ DOMAIN co # {}

\* Variant that keeps a mapping the list already has.
NoSampleMappingKept(list_id, cm) ==
    IF list_id \in DOMAIN cm THEN cm ELSE DictSet(cm, list_id, EmptyDict)
\* Lines 203-206: no sample record, self._column_mapping[list_id] = {}.
NoSampleMapping(list_id, cm) == DictSet(cm, list_id, EmptyDict)

\* Variant that merges the labels of the schema into the old map.
OptionsMerged(co, category_mapping) ==
    [v \in DOMAIN co \cup DOMAIN category_mapping |->
        IF v \in DOMAIN category_mapping THEN category_mapping[v] ELSE co[v]]
\* Line 239: self.category_options = category_mapping.
OptionsReplaced(co, category_mapping) == category_mapping

(***************************************************************************)
(* _discover_schema: [exc, cm, co, info].                                  *)
(***************************************************************************)
discover_schema(list_id, cm, co, info, o1, o2) ==
    IF AlreadyDiscovered(list_id, cm, co)
    THEN [exc |-> FALSE, cm |-> cm, co |-> co, info |-> info]
    ELSE LET r1 == fetch_items_from_api(o1)
             r2 == fetch_list_schema(list_id, info, o2)
         IN IF r1.exc
            THEN [exc |-> TRUE, cm |-> cm, co |-> co, info |-> info]
            ELSE IF r1.items = <<>>
            THEN [exc |-> FALSE, cm |-> NoSampleMapping(list_id, cm),
                  co |-> co, info |-> info]
            ELSE IF r2.schema = <<>>
            THEN [exc |-> FALSE, cm |-> DictSet(cm, list_id, EmptyDict),
                  co |-> co, info |-> r2.info]
            ELSE [exc |-> FALSE,
                  cm |-> DictSet(cm, list_id, BuildColumnMapping(r2.schema)),
                  co |-> OptionsReplaced(co, BuildCategoryMapping(r2.schema)),
                  info |-> r2.info]

\* Every record, column mapping and option map of this model, and the
\* result of _parse_item_to_task for each of them.
AllRecords == RawRecordsL1 \cup RawRecordsL2
AllSchemas == {SchemaFull, SchemaNoSelect, SchemaOdd}
AllMappings == {EmptyDict} \cup {BuildColumnMapping(x) : x \in AllSchemas}
AllOptionMaps == {EmptyDict} \cup {BuildCategoryMapping(x) : x \in AllSchemas}
ParseTable ==
    [r \in AllRecords, m \in AllMappings, o \in AllOptionMaps |->
        parse_item_to_task(r, m, o)]

\* Lines 148-154: [exc, tasks]; rejected records are skipped, an exception
\* of one record ends the loop.
RECURSIVE ParseAll(_, _, _)
ParseAll(items, mapping, options) ==
    IF items = <<>> THEN [exc |-> FALSE, tasks |-> <<>>]
    ELSE IF ParseTable[items[1], mapping, options].r = "raise"
    THEN [exc |-> TRUE, tasks |-> <<>>]
    ELSE IF ParseTable[items[1], mapping, options].r = "task"
    THEN [exc |-> ParseAll(Tail(items), mapping, options).exc,
          tasks |-> <<ParseTable[items[1], mapping, options].task>>
                    \o ParseAll(Tail(items), mapping, options).tasks]
    ELSE ParseAll(Tail(items), mapping, options)

\* Variant that forgets the cache on an exception.
CachedOrEmptyAlwaysEmpty(c, list_id) == <<>>
\* Line 167: self._cache.get(list_id, []).
CachedOrEmpty(c, list_id) == IF list_id \in DOMAIN c THEN c[list_id] ELSE <<>>

\* Variant that answers an empty record set from the cache.
NoItemsResultCached(c, list_id) ==
    IF list_id \in DOMAIN c THEN c[list_id] ELSE <<>>
\* Lines 143-145.
NoItemsResult(c, list_id) == <<>>

\* Variant that keeps the mapping on a forced refresh.
ForceClearNothing(list_id, force_refresh, dict) == dict
\* Lines 133-136.
ForceClear(list_id, force_refresh, dict) ==
    IF force_refresh THEN DictPop(dict, list_id) ELSE dict
ForceClearOptions(force_refresh, co) ==
    IF force_refresh THEN EmptyDict ELSE co

\* Variant that goes on without a credential.
TokenMissingNever(token) == FALSE
\* Line 127.
TokenMissing(token) == ~token

\* Variant that keeps the order of the records.
SortNothing(tasks) == tasks
\* Line 157.
SortByStartAndName(tasks) == SortTasks(tasks)

\* Which remote calls fetch_list_items makes.
CallsSample(list_id, force_refresh) ==
    /\ ~TokenMissing(hasToken)
    /\ ~AlreadyDiscovered(list_id,
                          ForceClear(list_id, force_refresh, column_mapping),
                          ForceClearOptions(force_refresh, category_options))
CallsSchema(list_id, force_refresh, o1) ==
    CallsSample(list_id, force_refresh) /\ o1.kind = "ok" /\ o1.items # <<>>
CallsItems(list_id, force_refresh, o1) ==
    ~TokenMissing(hasToken)
    /\ ~(CallsSample(list_id, force_refresh) /\ o1.kind = "raise")

\* Lines 133-139 of fetch_list_items: the forced invalidation, then discovery.
Discovery(list_id, force_refresh, o1, o2) ==
    discover_schema(list_id,
                    ForceClear(list_id, force_refresh, column_mapping),
                    ForceClearOptions(force_refresh, category_options),
                    list_info_cache, o1, o2)

\* Lines 141-154 of fetch_list_items, d being the outcome of discovery:
\* the raw records fetched and parsed, [exc, empty, tasks].
FetchAndParse(list_id, d, o3) ==
    IF d.exc \/ fetch_items_from_api(o3).exc
    THEN [exc |-> TRUE, empty |-> FALSE, tasks |-> <<>>]
    ELSE IF fetch_items_from_api(o3).items = <<>>
    THEN [exc |-> FALSE, empty |-> TRUE, tasks |-> <<>>]
    ELSE [exc |-> ParseAll(o3.items, d.cm[list_id], d.co).exc,
          empty |-> FALSE,
          tasks |-> ParseAll(o3.items, d.cm[list_id], d.co).tasks]

\* Variant that drops the entry of the list when the fetch stores no list.
CacheWithoutStoreDropped(c, list_id) == DictPop(c, list_id)
\* Lines 143-145 and 165-167 assign nothing to self._cache.
CacheWithoutStore(c, list_id) == c

\* Lines 143-145 and 156-167 of fetch_list_items: [exc, cache, ret].
FetchResult(list_id, parsed) ==
    IF parsed.exc
    THEN [exc |-> TRUE, cache |-> CacheWithoutStore(cache, list_id),
          ret |-> CachedOrEmpty(cache, list_id)]
    ELSE IF parsed.empty
    THEN [exc |-> FALSE, cache |-> CacheWithoutStore(cache, list_id),
          ret |-> NoItemsResult(cache, list_id)]
    ELSE [exc |-> FALSE,
          cache |-> DictSet(cache, list_id, SortByStartAndName(parsed.tasks)),
          ret |-> SortByStartAndName(parsed.tasks)]

\* No list info returned: every call but get_list_info.
NoInfo == [title |-> "", description |-> ""]

Kind1(o1) == IF o1.kind = "ok" /\ o1.items = <<>> THEN "empty" ELSE o1.kind

\* The record of one call: the operation, its arguments (force: the
\* force_refresh it was given), the outcome of each remote call it made
\* ("none": not made), whether fetch_list_items caught an exception, and
\* what the call returned.
Call(op, list_id, force_refresh, o1, o2, o3, exc, ret) ==
    [op |-> op, list_id |-> list_id, force |-> force_refresh,
     k1 |-> Kind1(o1), k2 |-> o2.kind, schema |-> o2.schema,
     k3 |-> o3.kind, items |-> o3.items, exc |-> exc, ret |-> ret,
     info |-> NoInfo]

NoPrev == [op |-> "idle", force |-> FALSE]
\* call: one application of a function of the module to an argument, for
\* the specification that applies them on their own.
NoCall == [fn |-> "none", done |-> TRUE]
\* No thread is inside the service, nothing was read, no remote is fixed.
NoThreads == <<>>
NoObservation == [read |-> FALSE]
NoRemote == <<>>
\* canvas_service.py:33, and a workspace without chart files.
NoFiles == last_file_id = 0 /\ uploaded = 0 /\ deleted = {} /\ shown = 0
Idle == Call("idle", "", FALSE, NoItemsCall, NoSchemaCall, NoItemsCall, FALSE, <<>>)

Init ==
    /\ hasToken \in BOOLEAN
    /\ cache = EmptyDict
    /\ column_mapping = EmptyDict
    /\ category_options = EmptyDict
    /\ list_info_cache = EmptyDict
    /\ csv_cache = EmptyDict
    /\ task_cache = <<>>
    /\ cache_timestamp = 0
    /\ now = CACHE_TTL_SECONDS + 1
    /\ slack_list_id = "L1"
    /\ last = Idle
    /\ prev = NoPrev
    /\ call = NoCall
    /\ threads = NoThreads
    /\ observed = NoObservation
    /\ remote = NoRemote
    /\ before = NoRemote
    /\ NoFiles

(***************************************************************************)
(* fetch_list_items(list_id, force_refresh) on the service, for the        *)
(* outcomes o1 (sample of discovery), o2 (items.info), o3 (item fetch).    *)
(***************************************************************************)
ServiceFetch(op, arg, list_id, force_refresh) ==
    \E o1 \in IF CallsSample(list_id, force_refresh)
              THEN SampleOutcomes(list_id) ELSE {NoItemsCall} :
    \E o2 \in IF CallsSchema(list_id, force_refresh, o1)
              THEN SchemaOutcomes(list_id) ELSE {NoSchemaCall} :
    \E o3 \in IF CallsItems(list_id, force_refresh, o1)
              THEN ItemsOutcomes(list_id) ELSE {NoItemsCall} :
        IF TokenMissing(hasToken)
        THEN /\ UNCHANGED <<cache, column_mapping, category_options,
                            list_info_cache, csv_cache>>
             /\ last' = Call(op, list_id, arg, o1, o2, o3, FALSE, <<>>)
        ELSE \E d \in {Discovery(list_id, force_refresh, o1, o2)} :
             \E parsed \in {FetchAndParse(list_id, d, o3)} :
             \E f \in {FetchResult(list_id, parsed)} :
                /\ cache' = f.cache
                /\ column_mapping' = d.cm
                /\ category_options' = d.co
                /\ list_info_cache' = d.info
                /\ csv_cache' = ForceClear(list_id, force_refresh, csv_cache)
                /\ last' = Call(op, list_id, arg, o1, o2, o3, f.exc, f.ret)

\* list_service.fetch_list_items(list_id, force_refresh)
FetchListItems ==
    /\ last.op = "idle"
    /\ \E list_id \in ListIds, force_refresh \in BOOLEAN :
          ServiceFetch("fetch_list_items", force_refresh, list_id, force_refresh)
    /\ UNCHANGED <<kvars, cvars, call, hasToken, avars>>

\* Variant that clears every entry whatever the argument.
clear_cache_all(c, list_id) == EmptyDict
\* Lines 514-517: the cache after clear_cache(list_id).
clear_cache(c, list_id) ==
    IF list_id # "" THEN DictPop(c, list_id) ELSE EmptyDict

\* list_service.clear_cache(list_id); "" stands for no argument.
ClearCache ==
    /\ last.op = "idle"
    /\ \E list_id \in ListIds \cup {""} :
        /\ cache' = clear_cache(cache, list_id)
        /\ last' = Call("clear_cache", list_id, FALSE,
                        NoItemsCall, NoSchemaCall, NoItemsCall, FALSE, <<>>)
    /\ UNCHANGED <<kvars, cvars, call, hasToken, column_mapping, category_options,
                   list_info_cache, csv_cache, avars>>

\* Lines 485-488: the cached info of the list, else the default record.
CachedInfoOrDefault(info, list_id) ==
    IF list_id \in DOMAIN info THEN info[list_id]
    ELSE [title |-> DefaultTitle(list_id), description |-> ""]

\* The items.list answers get_list_info can get: without a credential the
\* remote never answers ok.
InfoSampleOutcomes(list_id) ==
    IF hasToken THEN SampleOutcomes(list_id) ELSE ItemsFailures
\* Lines 480-482 and 250-251: items.info is called for a sample record, if
\* there is a credential.
InfoSchemaOutcomes(list_id, o1) ==
    IF hasToken /\ o1.kind = "ok" /\ o1.items # <<>>
    THEN SchemaOutcomes(list_id) ELSE {NoSchemaCall}

\* list_service.get_list_info(list_id), lines 470-488.  last.exc says that
\* the call raised; last.info is what it returned.
GetListInfo ==
    /\ last.op = "idle"
    /\ \E list_id \in ListIds :
        IF list_id \in DOMAIN list_info_cache
        THEN /\ last' = [Call("get_list_info", list_id, FALSE, NoItemsCall,
                              NoSchemaCall, NoItemsCall, FALSE, <<>>)
                           EXCEPT !.info = list_info_cache[list_id]]
             /\ UNCHANGED list_info_cache
        ELSE \E o1 \in InfoSampleOutcomes(list_id) :
             \E o2 \in InfoSchemaOutcomes(list_id, o1) :
                IF fetch_items_from_api(o1).exc
                THEN /\ last' = Call("get_list_info", list_id, FALSE, o1, o2,
                                     NoItemsCall, TRUE, <<>>)
                     /\ UNCHANGED list_info_cache
                ELSE /\ list_info_cache'
                          = fetch_list_schema(list_id, list_info_cache, o2).info
                     /\ last' = [Call("get_list_info", list_id, FALSE, o1, o2,
                                      NoItemsCall, FALSE, <<>>)
                                   EXCEPT !.info = CachedInfoOrDefault(
                                              list_info_cache', list_id)]
    /\ UNCHANGED <<kvars, cvars, call, hasToken, cache, column_mapping, category_options,
                   csv_cache, avars>>

\* Variant that expires a cache of exactly CACHE_TTL_SECONDS of age.
CacheExpiredAtTTL == (now - cache_timestamp) >= CACHE_TTL_SECONDS
\* app.py:335
CacheExpired == (now - cache_timestamp) > CACHE_TTL_SECONDS
\* app.py:337
MustFetch(force_refresh) ==
    force_refresh \/ CacheExpired \/ task_cache = <<>>

\* app.py get_cached_tasks(force_refresh)
GetCachedTasks ==
    /\ last.op = "idle"
    /\ \E force_refresh \in BOOLEAN :
        IF MustFetch(force_refresh)
        THEN IF slack_list_id # ""
             THEN /\ ServiceFetch("get_cached_tasks", force_refresh,
                                  slack_list_id, FALSE)
                  /\ task_cache' = last'.ret
                  /\ cache_timestamp' = now
             ELSE /\ task_cache' = <<>>
                  /\ last' = Call("get_cached_tasks", "", force_refresh,
                                  NoItemsCall, NoSchemaCall, NoItemsCall,
                                  FALSE, <<>>)
                  /\ UNCHANGED <<cache, column_mapping, category_options,
                                 list_info_cache, csv_cache, cache_timestamp>>
        ELSE /\ last' = Call("get_cached_tasks", slack_list_id, force_refresh,
                             NoItemsCall, NoSchemaCall, NoItemsCall,
                             FALSE, task_cache)
             /\ UNCHANGED <<cache, column_mapping, category_options,
                            list_info_cache, csv_cache, task_cache,
                            cache_timestamp>>
    /\ UNCHANGED <<kvars, cvars, call, hasToken, now, slack_list_id, prev>>

\* app.py handle_gantt_command, lines 185-199; text is what follows /gantt.
HandleGanttCommand ==
    /\ last.op = "idle"
    /\ \E text \in ListIds \cup {""} :
        IF text = "" /\ slack_list_id = ""
        THEN /\ last' = Call("gantt", "", FALSE, NoItemsCall, NoSchemaCall,
                             NoItemsCall, FALSE, <<>>)
             /\ UNCHANGED <<cache, column_mapping, category_options,
                            list_info_cache, csv_cache, task_cache,
                            cache_timestamp>>
        ELSE /\ ServiceFetch("gantt", FALSE,
                             IF text # "" THEN text ELSE slack_list_id, FALSE)
             /\ task_cache' = last'.ret
             /\ cache_timestamp' = now
    /\ UNCHANGED <<kvars, cvars, call, hasToken, now, slack_list_id, prev>>

\* time.time() advances.
TickSteps == {CACHE_TTL_SECONDS, CACHE_TTL_SECONDS + 1}
Tick ==
    /\ last.op = "idle"
    /\ \E step \in TickSteps :
        /\ now + step <= CACHE_TTL_SECONDS + MaxClock
        /\ now' = now + step
    /\ UNCHANGED <<svars, task_cache, cache_timestamp, slack_list_id, last, prev>>

\* The caller takes the result of the call; the next call can start.
Return ==
    /\ last.op # "idle"
    /\ last' = Idle
    /\ UNCHANGED <<svars, avars>>

\* The same for a call of the application, which prev remembers.
ReturnApp ==
    /\ last.op # "idle"
    /\ last' = Idle
    /\ prev' = [op |-> last.op, force |-> last.force]
    /\ UNCHANGED <<svars, task_cache, cache_timestamp, now, slack_list_id>>

(***************************************************************************)
(* _parse_item_to_task applied on its own to one record, under a column    *)
(* mapping and an option-label map discovery can have built for L1.        *)
(***************************************************************************)
\* Zero or one field: the key is absent from the record when v is Absent.
Absent == [t |-> "absent", s |-> "", d |-> 0, l |-> <<>>]
Opt(key, v) == IF v = Absent THEN <<>> ELSE <<Field(key, v, "")>>
EndValues == {Absent, NoneV, Str(""), Str("soon"), IsoBad, Iso(2), Huge}
EndFallbackValues == {Absent, Iso(3)}
CategoryValues == {Absent, NoneV, Str(""), Str("Opt1"), Str("Opt9")}
\* Where the record holds its start date: the mapped column, the fallback
\* key "date", or nowhere.
StartPlaces == {"Col_start", "date", ""}
ParseRecord(start, e, fe, c) ==
    [id |-> "I8",
     fields |-> <<Field("Col_name", Str("Alpha"), "")>>
                \o Opt(start, IF start = "" THEN Absent ELSE Iso(1))
                \o Opt("Col_end", e) \o Opt("end_date", fe) \o Opt("Col_cat", c)]
ParseRecords ==
    {ParseRecord(start, e, fe, c) :
        start \in StartPlaces, e \in EndValues, fe \in EndFallbackValues,
        c \in CategoryValues}
ParseMappings ==
    {EmptyDict, BuildColumnMapping(SchemaFull), BuildColumnMapping(SchemaNoSelect)}
ParseOptions == {EmptyDict, BuildCategoryMapping(SchemaFull)}

\* A service on which no call has been made yet, but for what discovery
\* has built.
InitService ==
    /\ hasToken = TRUE
    /\ cache = EmptyDict
    /\ list_info_cache = EmptyDict
    /\ csv_cache = EmptyDict
    /\ task_cache = <<>>
    /\ cache_timestamp = 0
    /\ now = CACHE_TTL_SECONDS + 1
    /\ slack_list_id = "L1"
    /\ last = Idle
    /\ prev = NoPrev
    /\ threads = NoThreads
    /\ observed = NoObservation
    /\ remote = NoRemote
    /\ before = NoRemote
    /\ NoFiles

InitParseItem ==
    /\ InitService
    /\ column_mapping \in {[l \in {"L1"} |-> m] : m \in ParseMappings}
    /\ category_options \in ParseOptions
    /\ call \in {[fn |-> "parse_item_to_task", done |-> FALSE, item |-> r,
                  list_id |-> "L1", res |-> NoTask] : r \in ParseRecords}

\* self._parse_item_to_task(item, list_id)
ParseItemToTask ==
    /\ call.fn = "parse_item_to_task" /\ ~call.done
    /\ call' = [call EXCEPT !.done = TRUE,
                            !.res = parse_item_to_task(
                                        call.item, column_mapping[call.list_id],
                                        category_options)]
    /\ UNCHANGED <<kvars, cvars, hasToken, cache, column_mapping, category_options,
                   list_info_cache, csv_cache, avars, last>>

(***************************************************************************)
(* _parse_item_to_task applied on its own to records that are resolved     *)
(* through the fallback keys or carry notes and unmapped fields.           *)
(***************************************************************************)
\* Records that hold their name under the fallback keys, each key absent,
\* empty or with a text; the mapped name column is absent or empty.
FallbackNameRecords ==
    {[id |-> "I9",
      fields |-> Opt("Col_name", c) \o Opt("name", n1) \o Opt("Name", n2)
                 \o Opt("title", n3) \o Opt("Title", n4)
                 \o <<Field("date", Iso(1), "")>>] :
        c \in {Absent, Str("")},
        n1 \in {Absent, Str(""), Str("Alpha")},
        n2 \in {Absent, Str("Beta")},
        n3 \in {Absent, Str(""), Str("Alpha Beta")},
        n4 \in {Absent, Str("Beta")}}
\* Records that hold their start date under the fallback keys, each key
\* absent, unparseable or with a date; the mapped start column is absent,
\* unparseable or holds a date.
FallbackStartRecords ==
    {[id |-> "I10",
      fields |-> <<Field("name", Str("Alpha"), "")>>
                 \o Opt("Col_start", c) \o Opt("date", d1)
                 \o Opt("start_date", d2) \o Opt("start", d3)] :
        c \in {Absent, Str("soon"), Iso(3)},
        d1 \in {Absent, NoneV, Str("soon"), IsoBad, Iso(1), Huge},
        d2 \in {Absent, IsoBad, Iso(2)},
        d3 \in {Absent, Secs(3)}}
\* Records with notes, a raw field under the key "notes" and a field no
\* column is mapped to.
NotesRecords ==
    {[id |-> "I11",
      fields |-> <<Field("Col_name", Str("Alpha"), ""),
                   Field("Col_start", Iso(1), "")>>
                 \o Opt("Col_notes", n) \o Opt("notes", r)
                 \o Opt("owner", o) \o Opt("Col_cat", c)] :
        n \in {Absent, Str(""), Str("Alpha"), Rich(<<"Alpha", "Beta">>)},
        r \in {Absent, Str("Beta")},
        o \in {Absent, NoneV, Str(""), Str("Alpha")},
        c \in {Absent, Str("Opt1")}}
\* A schema with a notes column.
SchemaNotes ==
    SchemaFull \o <<Col("notes", "Col_notes", "text", FALSE, <<>>)>>

InitParseRest ==
    /\ InitService
    /\ column_mapping \in
          {[l \in {"L1"} |-> m] :
              m \in {EmptyDict, BuildColumnMapping(SchemaFull),
                     BuildColumnMapping(SchemaNotes)}}
    /\ category_options \in ParseOptions
    /\ call \in {[fn |-> "parse_item_to_task", done |-> FALSE, item |-> r,
                  list_id |-> "L1", res |-> NoTask] :
                 r \in FallbackNameRecords \cup FallbackStartRecords
                       \cup NotesRecords}
SpecParse == InitParseRest /\ [][ParseItemToTask]_vars

(***************************************************************************)
(* extract_text_from_rich_text applied on its own: to plain texts, to JSON *)
(* texts that are no list, and to lists nested as rich text is, well or    *)
(* badly formed at each level.                                             *)
(***************************************************************************)
MaxLeaves == 2
TextValues ==
    {[kind |-> "str", s |-> "Alpha"], [kind |-> "missing", s |-> ""],
     [kind |-> "null", s |-> ""], [kind |-> "int", s |-> ""]}
NotADict == [dict |-> FALSE]
Leaves ==
    {[dict |-> TRUE, type |-> "text", text |-> tv] : tv \in TextValues}
    \cup {[dict |-> TRUE, type |-> "link", text |-> [kind |-> "str", s |-> "Alpha"]],
          NotADict}
LeafLists == SeqsUpTo(Leaves, MaxLeaves)
\* What "elements" can hold, S being the lists it can hold.
Containers(S) ==
    {[kind |-> k, items |-> <<>>] : k \in {"missing", "null", "int", "str"}}
    \cup {[kind |-> "list", items |-> q] : q \in S}
Elements ==
    {NotADict} \cup {[dict |-> TRUE, elements |-> c] : c \in Containers(LeafLists)}
Blocks ==
    {NotADict} \cup
    {[dict |-> TRUE, elements |-> c] :
        c \in Containers({<<>>} \cup {<<e>> : e \in Elements})}
TextBlock(s) ==
    [dict |-> TRUE, elements |-> [kind |-> "list", items |->
        <<[dict |-> TRUE, elements |-> [kind |-> "list", items |->
            <<[dict |-> TRUE, type |-> "text",
               text |-> [kind |-> "str", s |-> s]]>>]]>>]]
Trees ==
    {Tree(<<>>), Tree(<<TextBlock("Alpha"), TextBlock("Beta")>>)}
    \cup {Tree(<<b>>) : b \in Blocks}
PlainTexts ==
    {Str(""), Str("Alpha"), Str("Alpha Beta"), Iso(1), IsoBad, Secs(1), Huge,
     Json("true"), Json("false"), Json("null"), Json("123"), Json("\"Alpha\"")}
ExtractArguments ==
    PlainTexts \cup Trees \cup {NoneV, Rich(<<"Alpha", "Beta">>), RichNull}

InitExtractText ==
    /\ InitService
    /\ column_mapping = EmptyDict
    /\ category_options = EmptyDict
    /\ call \in {[fn |-> "extract_text_from_rich_text", done |-> FALSE,
                  value |-> v, res |-> [exc |-> FALSE, text |-> ""]] :
                 v \in ExtractArguments}

\* extract_text_from_rich_text(value)
ExtractText ==
    /\ call.fn = "extract_text_from_rich_text" /\ ~call.done
    /\ call' = [call EXCEPT !.done = TRUE,
                            !.res = extract_text_from_rich_text(call.value)]
    /\ UNCHANGED <<kvars, cvars, hasToken, cache, column_mapping, category_options,
                   list_info_cache, csv_cache, avars, last>>

(***************************************************************************)
(* parse_date_value applied on its own to all-digit strings.  The number   *)
(* a string writes is q * 10^6 + r with r < 10^6, which keeps every        *)
(* intermediate value of the computation within 32 bits; dates are days    *)
(* since 1970-01-01, the local time zone being UTC.                        *)
(***************************************************************************)
\* Variant that takes every timestamp for seconds.
IsMillisNever(q, r) == FALSE
\* Line 70: timestamp > 1e12.
IsMillis(q, r) == q > 1000000 \/ (q = 1000000 /\ r > 0)

\* Lines 69-73: datetime.fromtimestamp(timestamp).date(); DateNone when
\* fromtimestamp raises ValueError for a year past 9999, which line 74
\* catches.  The quotients are floor(seconds / 86400) with seconds =
\* (q * 10^6 + r) / 1000 for milliseconds and q * 10^6 + r otherwise.
TimestampDate(q, r) ==
    IF IsMillis(q, r)
    THEN IF q < 253402300 \/ (q = 253402300 /\ r \div 1000 <= 799)
         THEN DateOf((5 * q + (r \div 1000) \div 200) \div 432)
         ELSE DateNone
    ELSE IF q < 253402 \/ (q = 253402 /\ r <= 300799)
         THEN DateOf((625 * q + r \div 1600) \div 54)
         ELSE DateNone

\* Lines 66-84 for a string of ten or more digits: a timestamp that gives
\* no date is handed to dateutil, whose answer for it is an input.
parse_date_digits(q, r, dateutil) ==
    IF TimestampDate(q, r).some THEN TimestampDate(q, r) ELSE dateutil

\* dateutil gives no date for a string of ten or more digits: it raises
\* ParserError (a ValueError, caught at line 81) or OverflowError (not
\* caught).
DateutilOutcomes == {DateNone, DateRaise}

\* Unix times in seconds, as <<q, r>>: 10^9 and its successor, the first
\* and last second of a day of 2024, the last of ten digits and the first
\* of eleven.
Timestamps ==
    {<<1000, 0>>, <<1000, 1>>, <<1710, 460800>>, <<1710, 547199>>,
     <<9999, 999999>>, <<10000, 0>>}
\* The digits of s x 1000.
Millis(s) == <<1000 * s[1] + s[2] \div 1000, (s[2] % 1000) * 1000>>

InitParseDate ==
    /\ InitService
    /\ column_mapping = EmptyDict
    /\ category_options = EmptyDict
    /\ call \in {[fn |-> "parse_date_value", done |-> FALSE, s |-> s,
                  secs |-> DateNone, millis |-> DateNone] : s \in Timestamps}

\* parse_date_value(str(s)) and parse_date_value(str(s * 1000))
ParseDateForms ==
    /\ call.fn = "parse_date_value" /\ ~call.done
    /\ \E d1, d2 \in DateutilOutcomes :
          call' = [call EXCEPT
                     !.done = TRUE,
                     !.secs = parse_date_digits(call.s[1], call.s[2], d1),
                     !.millis = parse_date_digits(Millis(call.s)[1],
                                                  Millis(call.s)[2], d2)]
    /\ UNCHANGED <<kvars, cvars, hasToken, cache, column_mapping, category_options,
                   list_info_cache, csv_cache, avars, last>>

(***************************************************************************)
(* services/canvas_service.py: upload_and_update_canvas, each call with    *)
(* the outcomes of its remote calls.                                       *)
(***************************************************************************)
\* Number of chart files the calls upload at most.
MaxFiles == 4

\* _upload_image answers a file id or None; _update_canvas answers True or
\* False, or raises what is not a SlackApiError; files.delete succeeds,
\* raises SlackApiError (swallowed at line 349) or raises something else.
UploadOutcomes == {"file", "none"}
UpdateOutcomes == {"ok", "failed", "raise"}
DeleteOutcomes == {"ok", "api_error", "raise"}

\* Line 66: the old file is deleted.
MustDelete(success, file_id) ==
    success /\ last_file_id # 0 /\ last_file_id # file_id

\* upload_and_update_canvas, lines 56-74.
UploadAndUpdateCanvas ==
    /\ uploaded < MaxFiles
    /\ \E up \in UploadOutcomes, ed \in UpdateOutcomes, del \in DeleteOutcomes :
        IF up = "none"
        THEN UNCHANGED kvars
        ELSE \E file_id \in {uploaded + 1} :
             /\ uploaded' = file_id
             /\ shown' = IF ed = "ok" THEN file_id ELSE shown
             /\ IF ed = "raise"
                THEN UNCHANGED <<deleted, last_file_id>>
                ELSE IF MustDelete(ed = "ok", file_id)
                THEN /\ deleted' = IF del = "ok"
                                   THEN deleted \cup {last_file_id} ELSE deleted
                     /\ last_file_id' = IF del = "raise"
                                        THEN last_file_id ELSE file_id
                ELSE /\ UNCHANGED deleted
                     /\ last_file_id' = file_id
    /\ UNCHANGED <<cvars, call, hasToken, cache, column_mapping, category_options,
                   list_info_cache, csv_cache, avars, last>>

\* The canvas service on its own.
SpecCanvas == Init /\ [][UploadAndUpdateCanvas]_vars

(***************************************************************************)
(* models/task.py, TaskGroup.group_tasks applied on its own to a list of   *)
(* tasks.  A group is [name, tasks, start_date, end_date], the dates being *)
(* the properties of lines 162-174.                                        *)
(***************************************************************************)
\* Longest task list group_tasks is applied to.
MaxTasks == 3

\* Line 191: task.metadata.get(group_by, "Other").
GroupName(task, group_by) ==
    IF group_by \in DOMAIN task.metadata
    THEN task.metadata[group_by] ELSE Str("Other")

\* Lines 188-194: the keys of the dict groups, in the order of insertion.
RECURSIVE GroupNames(_, _)
GroupNames(tasks, group_by) ==
    IF tasks = <<>> THEN <<>>
    ELSE LET before_last == GroupNames(SubSeq(tasks, 1, Len(tasks) - 1), group_by)
             name == GroupName(tasks[Len(tasks)], group_by)
         IN IF \E i \in DOMAIN before_last : before_last[i] = name
            THEN before_last ELSE Append(before_last, name)

\* Variant that starts the list of a group anew at every task.
GroupMembersLastOnly(tasks, group_by, name) ==
    LET idx == {i \in DOMAIN tasks : GroupName(tasks[i], group_by) = name}
    IN <<tasks[SetMax(idx)]>>
\* Lines 192-194: the tasks appended to groups[name], in their order.
GroupMembers(tasks, group_by, name) ==
    SelectSeq(tasks, LAMBDA t : GroupName(t, group_by) = name)

\* Lines 198 and 203: sorted by start_date (of tasks, of groups), a stable
\* sort; no group is empty, so that line 203 never takes date.max.
SortByStartDate(q) ==
    LET rank(i) == Cardinality({j \in DOMAIN q :
                       \/ q[j].start_date < q[i].start_date
                       \/ q[j].start_date = q[i].start_date /\ j < i})
    IN [k \in DOMAIN q |-> q[CHOOSE i \in DOMAIN q : rank(i) = k - 1]]

\* Lines 162-174: min and max over the tasks of a group (none is empty).
GroupStartDate(tasks) ==
    CHOOSE d \in {tasks[i].start_date : i \in DOMAIN tasks} :
        \A i \in DOMAIN tasks : d <= tasks[i].start_date
GroupEndDate(tasks) ==
    CHOOSE d \in {tasks[i].end_date : i \in DOMAIN tasks} :
        \A i \in DOMAIN tasks : d >= tasks[i].end_date

\* Lines 176-203.
group_tasks(tasks, group_by) ==
    LET names == GroupNames(tasks, group_by)
        group(name) ==
            LET members == SortByStartDate(GroupMembers(tasks, group_by, name))
            IN [name |-> name, tasks |-> members,
                start_date |-> GroupStartDate(members),
                end_date |-> GroupEndDate(members)]
    IN SortByStartDate([i \in DOMAIN names |-> group(names[i])])

\* Tasks with or without the metadata field "group", of three periods.
GroupedTasks ==
    {[id |-> "I12", name |-> "Alpha", start_date |-> p[1], end_date |-> p[2],
      category |-> NoneV,
      metadata |-> IF g = Absent THEN EmptyDict ELSE [group |-> g]] :
        p \in {<<1, 1>>, <<1, 3>>, <<2, 2>>},
        g \in {Absent, Str("Alpha"), Str("Other")}}

InitGroupTasks ==
    /\ InitService
    /\ column_mapping = EmptyDict
    /\ category_options = EmptyDict
    /\ call \in {[fn |-> "group_tasks", done |-> FALSE, tasks |-> q,
                  group_by |-> g, res |-> <<>>] :
                 q \in SeqsUpTo(GroupedTasks, MaxTasks), g \in {"group", "status"}}

\* TaskGroup.group_tasks(tasks, group_by)
GroupTasks ==
    /\ call.fn = "group_tasks" /\ ~call.done
    /\ call' = [call EXCEPT !.done = TRUE,
                            !.res = group_tasks(call.tasks, call.group_by)]
    /\ UNCHANGED <<kvars, cvars, hasToken, cache, column_mapping, category_options,
                   list_info_cache, csv_cache, avars, last>>

(***************************************************************************)
(* Two threads inside fetch_list_items on one service (the polling thread  *)
(* of start_polling and a web request), and reads of the task cache.  The  *)
(* service takes no lock.  A step of a thread is the local work up to and  *)
(* including one access to a shared attribute of the service; the remote   *)
(* answers the same for a list as long as the threads run.  The lookups of *)
(* lines 309-313 are one read of _column_mapping.                          *)
(***************************************************************************)
ThreadIds == {"poll", "web"}

RemoteUp ==
    [L1 |-> [items |-> [kind |-> "ok", items |-> <<RecBeta3, RecAlpha1>>],
             info |-> [kind |-> "ok", title |-> "Roadmap", schema |-> SchemaFull]],
     L2 |-> [items |-> [kind |-> "ok", items |-> <<RecTitle2>>],
             info |-> [kind |-> "ok", title |-> "", schema |-> SchemaOdd]]]
Remotes ==
    {RemoteUp,
     [RemoteUp EXCEPT !.L1.items = [kind |-> "raise", items |-> <<>>]],
     [RemoteUp EXCEPT !.L1.items = [kind |-> "ok", items |-> <<>>]],
     [RemoteUp EXCEPT !.L1.info = [kind |-> "error", title |-> "", schema |-> <<>>]],
     [RemoteUp EXCEPT !.L1.items =
                         [kind |-> "ok", items |-> <<RecAlpha1, RecHugeDate>>]]}

\* The attributes of a service no call has been made on (lines 101-114).
FreshService ==
    [cm |-> EmptyDict, co |-> EmptyDict, info |-> EmptyDict, cache |-> EmptyDict]

\* fetch_list_items(list_id, force_refresh) run from start to end with no
\* other thread in the service, on attributes s under remote r: [s, ret].
SeqFetch(s, r, token, list_id, force_refresh) ==
    IF TokenMissing(token) THEN [s |-> s, ret |-> <<>>]
    ELSE LET d == discover_schema(list_id,
                                  ForceClear(list_id, force_refresh, s.cm),
                                  ForceClearOptions(force_refresh, s.co),
                                  s.info, r[list_id].items, r[list_id].info)
             parsed == FetchAndParse(list_id, d, r[list_id].items)
             after == [cm |-> d.cm, co |-> d.co, info |-> d.info, cache |-> s.cache]
         IN IF parsed.exc
            THEN [s |-> after, ret |-> CachedOrEmpty(s.cache, list_id)]
            ELSE IF parsed.empty
            THEN [s |-> after, ret |-> <<>>]
            ELSE [s |-> [after EXCEPT !.cache = DictSet(s.cache, list_id,
                                          SortByStartAndName(parsed.tasks))],
                  ret |-> SortByStartAndName(parsed.tasks)]

\* The service when the threads start: fresh, or after one fetch of L1
\* that found the remote up.
ServiceBefore(token) ==
    {FreshService, SeqFetch(FreshService, RemoteUp, token, "L1", FALSE).s}

\* pc: the statement the thread is at; list_id, force: the arguments of its
\* call; schema: the answer of items.info; mapping: the column mapping read
\* for the record at hand; i: the index of that record; tasks: the local
\* list of line 148; stored: the list reached the cache; ret: the result.
IdleThread ==
    [pc |-> "idle", list_id |-> "", force |-> FALSE, schema |-> <<>>,
     mapping |-> EmptyDict, i |-> 0, tasks |-> <<>>, stored |-> FALSE,
     ret |-> <<>>]

InitThreads ==
    /\ hasToken \in BOOLEAN
    /\ before \in ServiceBefore(hasToken)
    /\ NoFiles
    /\ \E s \in {before} :
          /\ cache = s.cache
          /\ column_mapping = s.cm
          /\ category_options = s.co
          /\ list_info_cache = s.info
    /\ csv_cache = EmptyDict
    /\ task_cache = <<>>
    /\ cache_timestamp = 0
    /\ now = CACHE_TTL_SECONDS + 1
    /\ slack_list_id = "L1"
    /\ last = Idle
    /\ prev = NoPrev
    /\ call = NoCall
    /\ threads = [t \in ThreadIds |-> IdleThread]
    /\ observed = NoObservation
    /\ remote \in Remotes

\* The thread moves on; nothing shared changes but what the action says.
Step(t, th) == threads' = [threads EXCEPT ![t] = th]
Frame ==
    UNCHANGED <<hasToken, csv_cache, avars, last, call, observed, remote, before,
                kvars>>

\* Line 127: the call starts; without a credential it ends at once.
Begin(t) ==
    /\ threads[t].pc = "idle"
    /\ \E list_id \in ListIds, force_refresh \in BOOLEAN :
          Step(t, [threads[t] EXCEPT
                     !.list_id = list_id, !.force = force_refresh,
                     !.pc = IF TokenMissing(hasToken) THEN "done"
                            ELSE IF force_refresh THEN "clear_mapping"
                            ELSE "guard_mapping"])
    /\ UNCHANGED <<cache, column_mapping, category_options, list_info_cache>>
    /\ Frame

\* Line 135 (with line 134), then line 136: two steps.
Invalidate(t) ==
    /\ \/ /\ threads[t].pc = "clear_mapping"
          /\ column_mapping' = DictPop(column_mapping, threads[t].list_id)
          /\ Step(t, [threads[t] EXCEPT !.pc = "clear_options"])
          /\ UNCHANGED category_options
       \/ /\ threads[t].pc = "clear_options"
          /\ category_options' = EmptyDict
          /\ Step(t, [threads[t] EXCEPT !.pc = "guard_mapping"])
          /\ UNCHANGED column_mapping
    /\ UNCHANGED <<cache, list_info_cache>>
    /\ Frame

\* Line 195: list_id in self._column_mapping, then self.category_options:
\* two reads, two steps.
Guard(t) ==
    /\ \/ /\ threads[t].pc = "guard_mapping"
          /\ Step(t, [threads[t] EXCEPT
                        !.pc = IF threads[t].list_id \in DOMAIN column_mapping
                               THEN "guard_options" ELSE "sample"])
       \/ /\ threads[t].pc = "guard_options"
          /\ Step(t, [threads[t] EXCEPT
                        !.pc = IF DOMAIN category_options # {}
                               THEN "items" ELSE "sample"])
    /\ UNCHANGED <<cache, column_mapping, category_options, list_info_cache>>
    /\ Frame

\* Lines 202-206: the sample; without a record the list gets an empty
\* mapping.
Sample(t) ==
    /\ threads[t].pc = "sample"
    /\ \E r1 \in {fetch_items_from_api(remote[threads[t].list_id].items)} :
          IF r1.exc
          THEN /\ Step(t, [threads[t] EXCEPT !.pc = "except"])
               /\ UNCHANGED column_mapping
          ELSE IF r1.items = <<>>
          THEN /\ column_mapping' = NoSampleMapping(threads[t].list_id,
                                                    column_mapping)
               /\ Step(t, [threads[t] EXCEPT !.pc = "items"])
          ELSE /\ Step(t, [threads[t] EXCEPT !.pc = "schema"])
               /\ UNCHANGED column_mapping
    /\ UNCHANGED <<cache, category_options, list_info_cache>>
    /\ Frame

\* Line 210: _fetch_list_schema, which caches the list info.
Schema(t) ==
    /\ threads[t].pc = "schema"
    /\ \E r2 \in {fetch_list_schema(threads[t].list_id, list_info_cache,
                                    remote[threads[t].list_id].info)} :
          /\ list_info_cache' = r2.info
          /\ Step(t, [threads[t] EXCEPT !.schema = r2.schema,
                                        !.pc = "store_mapping"])
    /\ UNCHANGED <<cache, column_mapping, category_options>>
    /\ Frame

\* Line 214 (no schema) or line 238, then line 239: two steps.
StoreDiscovery(t) ==
    /\ \/ /\ threads[t].pc = "store_mapping"
          /\ column_mapping' =
                DictSet(column_mapping, threads[t].list_id,
                        IF threads[t].schema = <<>> THEN EmptyDict
                        ELSE BuildColumnMapping(threads[t].schema))
          /\ Step(t, [threads[t] EXCEPT
                        !.pc = IF threads[t].schema = <<>> THEN "items"
                               ELSE "store_options"])
          /\ UNCHANGED category_options
       \/ /\ threads[t].pc = "store_options"
          /\ category_options' =
                OptionsReplaced(category_options,
                                BuildCategoryMapping(threads[t].schema))
          /\ Step(t, [threads[t] EXCEPT !.pc = "items"])
          /\ UNCHANGED column_mapping
    /\ UNCHANGED <<cache, list_info_cache>>
    /\ Frame

\* Lines 141-148: the records; none ends the call with [].
Items(t) ==
    /\ threads[t].pc = "items"
    /\ \E r3 \in {fetch_items_from_api(remote[threads[t].list_id].items)} :
          Step(t, [threads[t] EXCEPT
                     !.i = 1,
                     !.pc = IF r3.exc THEN "except"
                            ELSE IF r3.items = <<>> THEN "done"
                            ELSE "columns"])
    /\ UNCHANGED <<cache, column_mapping, category_options, list_info_cache>>
    /\ Frame

\* Lines 309-313 for record i: self._column_mapping.get(list_id, {}).
Columns(t) ==
    /\ threads[t].pc = "columns"
    /\ Step(t, [threads[t] EXCEPT
                  !.mapping = IF threads[t].list_id \in DOMAIN column_mapping
                              THEN column_mapping[threads[t].list_id]
                              ELSE EmptyDict,
                  !.pc = "parse"])
    /\ UNCHANGED <<cache, column_mapping, category_options, list_info_cache>>
    /\ Frame

\* Variant that puts the list into the cache while it is built.
TasksBeforeStoreShared(c, list_id, tasks) == DictSet(c, list_id, tasks)
\* Lines 148-152: tasks is a local list, the cache does not see it grow.
TasksBeforeStore(c, list_id, tasks) == c

\* Lines 315-385 for record i, reading self.category_options (line 363),
\* and lines 151-152.
Parse(t) ==
    /\ threads[t].pc = "parse"
    /\ \E items \in {remote[threads[t].list_id].items.items} :
       \E p \in {ParseTable[items[threads[t].i], threads[t].mapping,
                            category_options]} :
       \E tasks \in {IF p.r = "task" THEN Append(threads[t].tasks, p.task)
                     ELSE threads[t].tasks} :
          /\ Step(t, [threads[t] EXCEPT
                        !.tasks = tasks,
                        !.i = @ + 1,
                        !.pc = IF p.r = "raise" THEN "except"
                               ELSE IF threads[t].i = Len(items) THEN "store"
                               ELSE "columns"])
          /\ cache' = TasksBeforeStore(cache, threads[t].list_id, tasks)
    /\ UNCHANGED <<column_mapping, category_options, list_info_cache>>
    /\ Frame

\* Lines 157-163: the local list is sorted, then put into the cache.
Store(t) ==
    /\ threads[t].pc = "store"
    /\ cache' = DictSet(cache, threads[t].list_id,
                        SortByStartAndName(threads[t].tasks))
    /\ Step(t, [threads[t] EXCEPT !.stored = TRUE,
                                  !.ret = SortByStartAndName(threads[t].tasks),
                                  !.pc = "done"])
    /\ UNCHANGED <<column_mapping, category_options, list_info_cache>>
    /\ Frame

\* Lines 165-167.
Except(t) ==
    /\ threads[t].pc = "except"
    /\ Step(t, [threads[t] EXCEPT
                  !.ret = CachedOrEmpty(cache, threads[t].list_id),
                  !.pc = "done"])
    /\ UNCHANGED <<cache, column_mapping, category_options, list_info_cache>>
    /\ Frame

\* get_cached_tasks(list_id), lines 508-510: self._cache.get(list_id).
ReadCache ==
    /\ \E list_id \in ListIds :
          observed' = [read |-> TRUE, list_id |-> list_id,
                       some |-> list_id \in DOMAIN cache,
                       tasks |-> CachedOrEmpty(cache, list_id)]
    /\ UNCHANGED <<hasToken, cache, column_mapping, category_options,
                   list_info_cache, csv_cache, avars, last, call, threads,
                   remote, before, kvars>>

NextThreads ==
    \/ \E t \in ThreadIds :
          \/ Begin(t) \/ Invalidate(t) \/ Guard(t) \/ Sample(t) \/ Schema(t)
          \/ StoreDiscovery(t) \/ Items(t) \/ Columns(t) \/ Parse(t)
          \/ Store(t) \/ Except(t)
    \/ ReadCache
\* One call of fetch_list_items by each thread, and reads of the cache.
SpecThreads == InitThreads /\ [][NextThreads]_vars

InitPure ==
    InitParseItem \/ InitExtractText \/ InitParseDate \/ InitGroupTasks
NextPure == ParseItemToTask \/ ExtractText \/ ParseDateForms \/ GroupTasks
\* The functions of the module, each applied once to an argument.
SpecPure == InitPure /\ [][NextPure]_vars

Next == FetchListItems \/ ClearCache \/ Return

Spec == Init /\ [][Next]_vars

\* The service, with the list info its callers ask for.
NextInfo == FetchListItems \/ GetListInfo \/ Return
SpecInfo == Init /\ [][NextInfo]_vars

\* The dashboard: get_cached_tasks on the service as time passes.
NextApp == GetCachedTasks \/ Tick \/ ReturnApp

SpecApp == Init /\ [][NextApp]_vars

\* The dashboard and the /gantt command on one service.
NextGantt == GetCachedTasks \/ HandleGanttCommand \/ ReturnApp

SpecGantt == Init /\ [][NextGantt]_vars

(***************************************************************************)
(* Claims.  In an action formula the unprimed variables are the state      *)
(* before the call and last' is the call that was made.                    *)
(***************************************************************************)
IsFetch(c) == c.op = "fetch_list_items"
Range(q) == {q[i] : i \in DOMAIN q}
\* The cache entry of a list, [] when there is none.
StoredList(c, list_id) == IF list_id \in DOMAIN c THEN c[list_id] ELSE <<>>
NoRemoteCall(c) == c.k1 = "none" /\ c.k2 = "none" /\ c.k3 = "none"

\* C1 (as stated): a fetch_list_items that hits an exception in any remote
\* call, of discovery (items.list sample, items.info) or of the item fetch,
\* returns the list the cache held for that list before the call ([] when
\* it held none).
C1_AnyRemoteException ==
    [][(IsFetch(last') /\ (last'.k1 = "raise" \/ last'.k2 = "raise"
                           \/ last'.k3 = "raise"))
        => last'.ret = StoredList(cache, last'.list_id)]_vars

\* C1 (amended): a fetch_list_items whose items.list call raises, be it the
\* sample of discovery or the item fetch, raises nothing, returns the list
\* the cache held for that list before the call ([] when it held none) and
\* leaves the cache as it was.
C1_ItemsListException ==
    [][(IsFetch(last') /\ (last'.k1 = "raise" \/ last'.k3 = "raise"))
        => /\ last'.ret = StoredList(cache, last'.list_id)
           /\ cache' = cache]_vars

\* C1 witness: the item fetch raised and the call returned a non-empty
\* cached list.
C1_Witness ==
    /\ IsFetch(last) /\ last.k3 = "raise"
    /\ last.list_id \in DOMAIN cache
    /\ cache[last.list_id] # <<>>
    /\ last.ret = cache[last.list_id]

\* C2 (as stated): of two consecutive non-forced get_cached_tasks calls,
\* the second made within CACHE_TTL_SECONDS of the cache's time stamp
\* returns the list the first returned (task_cache) and makes no remote
\* call.
C2_AnyFirstResult ==
    [][(/\ last'.op = "get_cached_tasks" /\ ~last'.force
        /\ prev = [op |-> "get_cached_tasks", force |-> FALSE]
        /\ now - cache_timestamp <= CACHE_TTL_SECONDS)
        => (last'.ret = task_cache /\ NoRemoteCall(last'))]_vars

\* C2 (amended): the same, provided the first call returned a non-empty
\* list.
C2_NonEmptyFirstResult ==
    [][(/\ last'.op = "get_cached_tasks" /\ ~last'.force
        /\ prev = [op |-> "get_cached_tasks", force |-> FALSE]
        /\ now - cache_timestamp <= CACHE_TTL_SECONDS
        /\ task_cache # <<>>)
        => (last'.ret = task_cache /\ NoRemoteCall(last')
            /\ task_cache' = task_cache)]_vars

\* C2 witness: a second non-forced call, CACHE_TTL_SECONDS after the fetch
\* of the first, served a non-empty list without a remote call.
C2_Witness ==
    /\ last.op = "get_cached_tasks" /\ ~last.force
    /\ prev = [op |-> "get_cached_tasks", force |-> FALSE]
    /\ now - cache_timestamp = CACHE_TTL_SECONDS
    /\ NoRemoteCall(last)
    /\ last.ret # <<>>

\* a comes no later than b in the order (start_date, name).
InOrder(a, b) ==
    \/ a.start_date < b.start_date
    \/ a.start_date = b.start_date /\ TextRank(a.name) <= TextRank(b.name)
IsSorted(q) == \A i, j \in DOMAIN q : i < j => InOrder(q[i], q[j])
Count(q, x) == Cardinality({i \in DOMAIN q : q[i] = x})
IsPermutation(p, q) ==
    /\ Len(p) = Len(q)
    /\ \A x \in Range(p) \cup Range(q) : Count(p, x) = Count(q, x)
\* A fetch that got records and parsed them without an exception.
FetchSucceeded(c) ==
    IsFetch(c) /\ ~c.exc /\ c.k3 = "ok" /\ c.items # <<>>
\* The tasks of the records of the fetch that _parse_item_to_task accepts,
\* in the order of the records.
Accepted(c) ==
    LET m == column_mapping[c.list_id]
        a == {i \in DOMAIN c.items :
                 parse_item_to_task(c.items[i], m, category_options).r = "task"}
        nth(k) == CHOOSE i \in a : Cardinality({j \in a : j < i}) = k - 1
    IN [k \in 1..Cardinality(a) |->
          parse_item_to_task(c.items[nth(k)], m, category_options).task]

\* C3: every list in the cache and every list a fetch returns is ordered by
\* (start_date, name) ascending, and the list a successful fetch returns is
\* a permutation of the tasks accepted from the records it fetched.
C3_SortedPermutation ==
    /\ \A l \in DOMAIN cache : IsSorted(cache[l])
    /\ IsFetch(last) => IsSorted(last.ret)
    /\ FetchSucceeded(last) =>
         /\ IsPermutation(last.ret, Accepted(last))
         /\ cache[last.list_id] = last.ret

\* C3 witness: a fetch returned two tasks of one start date in the opposite
\* order of their records.
C3_Witness ==
    /\ FetchSucceeded(last) /\ Len(last.ret) = 2 /\ Len(last.items) = 2
    /\ last.ret[1].id = last.items[2].id
    /\ last.ret[1].start_date = last.ret[2].start_date
    /\ last.ret[1].name # last.ret[2].name

WellFormed(t) == t.name # "" /\ t.start_date >= 1 /\ t.end_date >= 1
\* The name and start date _parse_item_to_task resolves for a record.
ResolvedName(item, m) ==
    LET fv == FieldById(item.fields)
        ft == FieldTextById(item.fields)
        n == MappedName(fv, ft, get_column_id(m, name_column))
    IN IF n.exc \/ n.text # "" THEN n ELSE FallbackName(fv, ft, 1)
ResolvedStart(item, m) ==
    LET fv == FieldById(item.fields)
        d == MappedDate(fv, get_column_id(m, start_date_column))
    IN IF d.exc \/ d.some THEN d ELSE FallbackStart(fv, 1)
Unresolved(item, m) ==
    \/ ~ResolvedName(item, m).exc /\ ResolvedName(item, m).text = ""
    \/ ~ResolvedStart(item, m).exc /\ ~ResolvedStart(item, m).some

\* C4: every task in the cache or returned by a fetch has a non-empty name,
\* a start date and an end date, and a fetched record whose name resolves
\* to nothing or whose start date resolves to nothing yields no task.
C4_TasksWellFormed ==
    /\ \A l \in DOMAIN cache : \A t \in Range(cache[l]) : WellFormed(t)
    /\ IsFetch(last) => \A t \in Range(last.ret) : WellFormed(t)
    /\ FetchSucceeded(last) =>
         \A i \in DOMAIN last.items :
            Unresolved(last.items[i], column_mapping[last.list_id])
            => \A t \in Range(last.ret) : t.id # last.items[i].id

\* C4 witness: a fetch of two records, one without a name, returned the
\* task of the other.
C4_Witness ==
    /\ FetchSucceeded(last) /\ Len(last.items) = 2 /\ Len(last.ret) = 1
    /\ \E i \in DOMAIN last.items :
          ResolvedName(last.items[i], column_mapping[last.list_id]).text = ""

\* C5: a fetch whose remote calls all answered and whose items.list answer
\* holds records neither fails nor falls back to the cache, and returns the
\* task of every record that has a resolvable name and start date, whatever
\* the other records of the batch hold.
C5_RejectsDroppedAlone ==
    (IsFetch(last) /\ last.k1 # "raise" /\ last.k3 = "ok" /\ last.items # <<>>)
    => /\ ~last.exc
       /\ \A i \in DOMAIN last.items :
             LET m == column_mapping[last.list_id]
                 n == ResolvedName(last.items[i], m)
                 d == ResolvedStart(last.items[i], m)
             IN (~n.exc /\ n.text # "" /\ ~d.exc /\ d.some)
                => \E t \in Range(last.ret) : t.id = last.items[i].id

\* C6: a fetch whose item fetch gets a non-ok answer returns [] and catches
\* no exception, whatever the cache holds.
C6_NonOkIsEmpty ==
    (IsFetch(last) /\ last.k3 = "error") => (last.ret = <<>> /\ ~last.exc)

\* C6 witness: the item fetch got a non-ok answer while the cache held a
\* non-empty list for that list.
C6_Witness ==
    /\ IsFetch(last) /\ last.k3 = "error"
    /\ StoredList(cache, last.list_id) # <<>>
    /\ last.ret = <<>>

\* C7: without a credential fetch_list_items returns [], makes no remote
\* call and leaves every cache and the discovery state unchanged, for every
\* list_id and force_refresh.
C7_NoCredential ==
    [][(IsFetch(last') /\ ~hasToken)
        => /\ last'.ret = <<>>
           /\ NoRemoteCall(last')
           /\ ~last'.exc
           /\ UNCHANGED <<cache, column_mapping, category_options,
                          list_info_cache, csv_cache>>]_vars

\* C7 witness: a forced fetch without a credential.
C7_Witness ==
    IsFetch(last) /\ ~hasToken /\ last.force /\ last.list_id = "L2"

\* C8: a non-forced fetch of a list whose column mapping discovery has
\* built makes no remote discovery call and leaves that mapping and the
\* option-label map unchanged.
C8_DiscoveredOnce ==
    [][(/\ IsFetch(last') /\ ~last'.force /\ hasToken
        /\ last'.list_id \in DOMAIN column_mapping
        /\ column_mapping[last'.list_id] # EmptyDict)
        => /\ last'.k1 = "none" /\ last'.k2 = "none"
           /\ column_mapping' = column_mapping
           /\ category_options' = category_options]_vars

\* What discovery leaves when it has run with outcome c: the mapping of the
\* list and the option-label map built from the schema it got, nothing when
\* it got none.
GotSchema(c) == c.k2 = "ok" /\ c.schema # <<>>

\* C9: with a credential, a forced fetch makes the sample call of discovery
\* whatever was cached, leaves of the old mapping of the list and of the old
\* option-label map nothing but what discovery rebuilds from the schema it
\* gets, and leaves the mapping of every other list unchanged.
C9_ForcedRefresh ==
    [][(IsFetch(last') /\ last'.force /\ hasToken)
        => /\ last'.k1 # "none"
           /\ IF GotSchema(last')
              THEN /\ column_mapping'[last'.list_id]
                        = BuildColumnMapping(last'.schema)
                   /\ category_options' = BuildCategoryMapping(last'.schema)
              ELSE /\ category_options' = EmptyDict
                   /\ IF last'.k1 = "raise"
                      THEN last'.list_id \notin DOMAIN column_mapping'
                      ELSE column_mapping'[last'.list_id] = EmptyDict
           /\ \A l \in ListIds \ {last'.list_id} :
                 /\ l \in DOMAIN column_mapping' <=> l \in DOMAIN column_mapping
                 /\ l \in DOMAIN column_mapping
                    => column_mapping'[l] = column_mapping[l]]_vars

\* C9 witness: a forced fetch of L1 whose sample call raised, while L2 has a
\* built mapping.
C9_Witness ==
    /\ IsFetch(last) /\ last.force /\ hasToken /\ last.list_id = "L1"
    /\ last.k1 = "raise"
    /\ "L2" \in DOMAIN column_mapping
    /\ column_mapping["L2"] # EmptyDict

\* A call in which discovery ran and got a schema.
Discovered(c) == IsFetch(c) /\ GotSchema(c)

\* C10 (as stated): after discovery got a schema, the mapping of the list
\* maps name to key for every entry that has both, and the option-label map
\* maps value to label for every choice of every select entry.
C10_EveryEntryEveryChoice ==
    Discovered(last) =>
        LET m == column_mapping[last.list_id]
            schema == last.schema
        IN /\ \A i \in DOMAIN schema :
                 (schema[i].name # "" /\ schema[i].key # "")
                 => (schema[i].name \in DOMAIN m
                     /\ m[schema[i].name] = schema[i].key)
           /\ \A i \in DOMAIN schema :
                 (schema[i].type = "select" /\ schema[i].has_options)
                 => \A j \in DOMAIN schema[i].choices :
                       /\ schema[i].choices[j].value \in DOMAIN category_options
                       /\ category_options[schema[i].choices[j].value]
                            = schema[i].choices[j].label

\* The entries and choices that count: an entry with a name and a key that
\* no later such entry repeats the name of; a choice with a value and a
\* label, of a select entry with options, that no later such choice repeats
\* the value of.
CountedEntries(schema) ==
    {i \in DOMAIN schema :
        /\ schema[i].name # "" /\ schema[i].key # ""
        /\ \A k \in DOMAIN schema :
              (k > i /\ schema[k].key # "") => schema[k].name # schema[i].name}
SelectChoices(schema) ==
    {p \in (DOMAIN schema) \X (1..4) :
        /\ schema[p[1]].type = "select" /\ schema[p[1]].has_options
        /\ p[2] \in DOMAIN schema[p[1]].choices
        /\ schema[p[1]].choices[p[2]].value # ""
        /\ schema[p[1]].choices[p[2]].label # ""}
CountedChoices(schema) ==
    {p \in SelectChoices(schema) :
        \A q \in SelectChoices(schema) :
            (q[1] > p[1] \/ (q[1] = p[1] /\ q[2] > p[2]))
            => schema[q[1]].choices[q[2]].value
                 # schema[p[1]].choices[p[2]].value}

\* C10 (amended): after discovery got a schema, the mapping of the list
\* maps name to key for every entry that has both, the last entry of a
\* repeated name deciding, and holds no other name; the option-label map
\* maps value to label for every choice that has both, of every select
\* entry, the last choice of a repeated value deciding, and holds no other
\* value.
C10_LastEntryLabelledChoice ==
    Discovered(last) =>
        LET m == column_mapping[last.list_id]
            schema == last.schema
        IN /\ DOMAIN m = {schema[i].name : i \in CountedEntries(schema)}
           /\ \A i \in CountedEntries(schema) : m[schema[i].name] = schema[i].key
           /\ DOMAIN category_options
                = {schema[p[1]].choices[p[2]].value : p \in CountedChoices(schema)}
           /\ \A p \in CountedChoices(schema) :
                 category_options[schema[p[1]].choices[p[2]].value]
                   = schema[p[1]].choices[p[2]].label

\* C10 witness: discovery got a schema with a repeated name and a choice
\* without a label, and mapped the other choice.
C10_Witness ==
    /\ Discovered(last)
    /\ \E i, k \in DOMAIN last.schema :
          i < k /\ last.schema[i].name = last.schema[k].name
    /\ DOMAIN category_options = {"Opt1"}
    /\ column_mapping[last.list_id]["Name"] = "Col_name"

\* A call in which discovery got records for its sample and no schema
\* descriptor (items.info raised, answered non-ok or answered without one).
NoDescriptor(c) == IsFetch(c) /\ c.k1 = "ok" /\ ~GotSchema(c)

\* C11: when discovery gets records for its sample and no schema descriptor,
\* it falls back to the tabular export: after the call the export of the
\* list has been fetched and the column mapping of the list, established
\* from it, maps the display name of the name column to a field key.
C11_ExportFallback ==
    NoDescriptor(last) =>
        /\ last.list_id \in DOMAIN csv_cache
        /\ name_column \in DOMAIN column_mapping[last.list_id]

\* C12: when the sample fetch of discovery yields no record (an empty or a
\* non-ok answer), discovery raises nothing, so the fetch goes on to its
\* item fetch; afterwards the column mapping of the list is empty, the
\* option-label map is what discovery found (the old one, emptied before
\* discovery if the fetch was forced) and the mapping of every other list
\* is unchanged.
C12_NoSampleNoMapping ==
    [][(IsFetch(last') /\ last'.k1 \in {"empty", "error"})
        => /\ last'.k3 # "none"
           /\ last'.list_id \in DOMAIN column_mapping'
           /\ column_mapping'[last'.list_id] = EmptyDict
           /\ category_options'
                = (IF last'.force THEN EmptyDict ELSE category_options)
           /\ \A l \in ListIds \ {last'.list_id} :
                 /\ l \in DOMAIN column_mapping' <=> l \in DOMAIN column_mapping
                 /\ l \in DOMAIN column_mapping
                    => column_mapping'[l] = column_mapping[l]]_vars

\* C12 witness: a non-forced fetch of L1 whose sample was empty, while the
\* option-label map and the mapping of L2 hold entries.
C12_Witness ==
    /\ IsFetch(last) /\ last.list_id = "L1" /\ ~last.force
    /\ last.k1 = "empty"
    /\ column_mapping["L1"] = EmptyDict
    /\ category_options # EmptyDict
    /\ "L2" \in DOMAIN column_mapping /\ column_mapping["L2"] # EmptyDict

\* C19: clear_cache(list_id) removes the task-cache entry of list_id and
\* leaves the entries of the other lists as they were; clear_cache() removes
\* every entry; both leave the column mappings, the option-label map and the
\* list-info cache unchanged.
C19_ClearCacheFrame ==
    [][last'.op = "clear_cache"
        => /\ IF last'.list_id # ""
              THEN /\ DOMAIN cache' = DOMAIN cache \ {last'.list_id}
                   /\ \A l \in DOMAIN cache' : cache'[l] = cache[l]
              ELSE DOMAIN cache' = {}
           /\ UNCHANGED <<column_mapping, category_options,
                          list_info_cache>>]_vars

\* C19 witness: clear_cache("L1") left the non-empty entry of L2 in the
\* cache, with a mapping, an option label and a list title stored.
C19_Witness ==
    /\ last.op = "clear_cache" /\ last.list_id = "L1"
    /\ DOMAIN cache = {"L2"} /\ cache["L2"] # <<>>
    /\ "L1" \in DOMAIN column_mapping /\ column_mapping["L1"] # EmptyDict
    /\ category_options # EmptyDict
    /\ "L1" \in DOMAIN list_info_cache

\* C20: get_list_info raises for no list_id and returns a record with a
\* title; when the info of the list is not cached and items.info gives no
\* metadata (no sample record, a non-ok answer or a failing remote call),
\* it returns the title "List <list_id>" and an empty description.
C20_InfoOrDefault ==
    [][last'.op = "get_list_info"
        => /\ ~last'.exc
           /\ last'.info.title # ""
           /\ (last'.list_id \notin DOMAIN list_info_cache /\ last'.k2 # "ok")
              => last'.info = [title |-> "List " \o last'.list_id,
                               description |-> ""]]_vars

\* A finished application of _parse_item_to_task.
Parsed == call.fn = "parse_item_to_task" /\ call.done
ParsedMapping == column_mapping[call.list_id]
\* The raw value of a mapped column of the record, Absent if the column is
\* unmapped or the record has no field of that key.
RawOf(item, m, column) ==
    LET fv == FieldById(item.fields)
        col_id == get_column_id(m, column)
    IN IF col_id = "" \/ col_id \notin DOMAIN fv THEN Absent ELSE fv[col_id]
\* The characters of v are a calendar date or a Unix time.
IsDateText(v) == v.t \in {"iso", "secs"}

\* C13: a record with a resolvable name and start date whose end date is
\* unresolved (end column unmapped, absent, empty or unparseable) yields a
\* task whose end_date is its start_date, whatever the record holds under
\* "end_date".
C13_EndDefaultsToStart ==
    (/\ Parsed
     /\ ~Unresolved(call.item, ParsedMapping)
     /\ ~IsDateText(RawOf(call.item, ParsedMapping, end_date_column)))
    => /\ call.res.r = "task"
       /\ call.res.task.end_date = call.res.task.start_date

\* C14: the category of a task is None when the category column is
\* unmapped or the record has no value or an empty one there; else the
\* label of the value in the option-label map when it has one, and the raw
\* value unchanged when it has none.
C14_CategoryLabelOrRawId ==
    (Parsed /\ call.res.r = "task") =>
        LET raw == RawOf(call.item, ParsedMapping, category_column)
            category == call.res.task.category
        IN IF raw \in {Absent, NoneV, Str("")} THEN category = NoneV
           ELSE IF raw.s \in DOMAIN category_options
           THEN category = Str(category_options[raw.s])
           ELSE category = raw

\* C14 witness: a task got the label the option-label map holds for the
\* option id of its record.
C14_Witness ==
    /\ Parsed /\ call.res.r = "task"
    /\ RawOf(call.item, ParsedMapping, category_column) = Str("Opt1")
    /\ call.res.task.category = Str("Students")

\* A finished application of extract_text_from_rich_text.
Extracted == call.fn = "extract_text_from_rich_text" /\ call.done
\* The argument is a string that is not the JSON of a list.
IsPlainText(v) == v.t \in {"str", "json", "iso", "isobad", "secs", "huge"}
\* The characters of such a string.
Chars(v) == IF v.t \in {"str", "json"} THEN v.s ELSE Repr(v)

\* C16: for every string s that is not the JSON encoding of a list of
\* blocks, a JSON literal, number or quoted word included,
\* extract_text_from_rich_text(s) raises nothing and returns s unchanged.
C16_PlainTextUnchanged ==
    (Extracted /\ IsPlainText(call.value))
    => (~call.res.exc /\ call.res.text = Chars(call.value))

\* C17: extract_text_from_rich_text raises for no decoded list, however its
\* blocks, their "elements" entries and the "text" of their leaves are
\* missing, null or of the wrong type.
C17_MalformedNeverRaises ==
    (Extracted /\ call.value.t \in {"tree", "rich", "richnull"})
    => ~call.res.exc

\* A finished application of parse_date_value to both forms of a timestamp.
DatesParsed == call.fn = "parse_date_value" /\ call.done
\* The calendar day of second s: floor(s / 86400), s = q * 10^6 + r.
DayOfSecond(s) == (625 * s[1] + s[2] \div 1600) \div 54

\* C18 (as stated): for every Unix time s of at least ten digits,
\* parse_date_value of the digits of s x 1000 returns the calendar date
\* parse_date_value of the digits of s returns.
C18_EveryTimestamp ==
    DatesParsed => (call.millis = call.secs /\ call.secs.some)

\* C18 (amended): for every Unix time s above 10^9 of at least ten digits,
\* both forms give the calendar date of s; for s = 10^9 the seconds form
\* gives it and the millisecond form, whose value 10^12 does not exceed
\* 10^12 and is read as seconds, gives no date.
C18_AboveTenToTheNinth ==
    DatesParsed =>
        /\ call.secs = DateOf(DayOfSecond(call.s))
        /\ IF call.s = <<1000, 0>>
           THEN ~call.millis.some
           ELSE call.millis = call.secs

\* C18 witness: both forms of 1710547199, the last second of 2024-03-15,
\* gave day 19797.
C18_Witness ==
    /\ DatesParsed /\ call.s = <<1710, 547199>>
    /\ call.secs = DateOf(19797) /\ call.millis = DateOf(19797)

\* C21: under every interleaving of two fetch_list_items calls and reads
\* of the cache, a read of the entry of a list sees no entry or a complete
\* list: sorted by (start_date, name), and holding exactly the tasks one
\* fetch of that list accepted -- the fetch made before the threads
\* started, or a call of a thread that reached line 160.
C21_ReadSeesCompleteList ==
    (observed.read /\ observed.some) =>
        /\ IsSorted(observed.tasks)
        /\ \/ /\ observed.list_id \in DOMAIN before.cache
              /\ before.cache[observed.list_id] = observed.tasks
           \/ \E t \in ThreadIds :
                 /\ threads[t].stored
                 /\ threads[t].list_id = observed.list_id
                 /\ IsPermutation(observed.tasks, threads[t].tasks)

\* A read saw the two-task list one thread stored while the other thread
\* is inside its loop over the records of the same list, one task built.
C21_Witness ==
    /\ observed.read /\ observed.some /\ Len(observed.tasks) = 2
    /\ \E t, u \in ThreadIds :
          /\ threads[t].stored /\ threads[t].list_id = observed.list_id
          /\ IsPermutation(observed.tasks, threads[t].tasks)
          /\ threads[u].pc \in {"columns", "parse"}
          /\ threads[u].list_id = observed.list_id
          /\ Len(threads[u].tasks) = 1

\* The two calls returned what they return when the call of thread first
\* runs from start to end before the call of thread second starts.
ReturnedInOrder(first, second) ==
    LET a == SeqFetch(before, remote, hasToken,
                      threads[first].list_id, threads[first].force)
        b == SeqFetch(a.s, remote, hasToken,
                      threads[second].list_id, threads[second].force)
    IN threads[first].ret = a.ret /\ threads[second].ret = b.ret

\* C22: when the calls of the two threads have both returned, each returned
\* the task list, category labels included, that it returns in one
\* sequential order of the two calls.
C22_SomeSequentialOrder ==
    (\A t \in ThreadIds : threads[t].pc = "done") =>
        \/ ReturnedInOrder("poll", "web")
        \/ ReturnedInOrder("web", "poll")

\* The option set of a schema: value -> label over the choices that count.
OptionsOf(schema) ==
    [v \in {schema[p[1]].choices[p[2]].value : p \in CountedChoices(schema)} |->
        schema[(CHOOSE p \in CountedChoices(schema) :
                    schema[p[1]].choices[p[2]].value = v)[1]]
            .choices[(CHOOSE p \in CountedChoices(schema) :
                          schema[p[1]].choices[p[2]].value = v)[2]].label]
\* The record of the fetch that the task was made from.
RecordOf(c, task) == CHOOSE r \in Range(c.items) : r.id = task.id

\* C23: the option-label map, empty on a new service, changes by a fetch
\* only: a discovery that gets a schema replaces it by the option set of
\* that schema, whatever list it is of and whatever the map held; a forced
\* refresh whose discovery gets no schema leaves it empty; nothing else
\* changes it.  And a non-forced fetch that finds its list discovered
\* labels the category ids of its records by the map as it is, whichever
\* list it was built from.
C23_OptionsOfLastDiscovery ==
    [][/\ category_options' =
            IF IsFetch(last') /\ GotSchema(last')
            THEN OptionsOf(last'.schema)
            ELSE IF IsFetch(last') /\ last'.force /\ hasToken
            THEN EmptyDict
            ELSE category_options
       /\ (FetchSucceeded(last') /\ last'.k1 = "none")
          => \A i \in DOMAIN last'.ret :
                LET raw == RawOf(RecordOf(last', last'.ret[i]),
                                 column_mapping[last'.list_id], category_column)
                IN (raw.t = "str" /\ raw.s \in DOMAIN category_options)
                   => last'.ret[i].category = Str(category_options[raw.s])]_vars

\* C23 witness: a non-forced fetch of L1, discovered earlier with the label
\* "Students" for Opt1, returned a task labelled "Projects", the label the
\* schema of L2 gives Opt1.
C23_Witness ==
    /\ IsFetch(last) /\ ~last.force /\ last.list_id = "L1" /\ last.k1 = "none"
    /\ category_options = OptionsOf(SchemaOdd)
    /\ \E i \in DOMAIN last.ret :
          /\ RawOf(RecordOf(last, last.ret[i]), column_mapping["L1"],
                   category_column) = Str("Opt1")
          /\ last.ret[i].category = Str("Projects")

\* The cache has the same entry, or none, for the list in c and in d.
SameEntry(c, d, l) ==
    /\ l \in DOMAIN c <=> l \in DOMAIN d
    /\ l \in DOMAIN c => c[l] = d[l]

\* C24: the cache entry of a list changes only by a fetch_list_items of
\* that list that raised nothing and got at least one raw record, or by a
\* clear_cache of that list or of all lists; so a fetch that raised, got no
\* record or had no credential, and every fetch of another list, leave it
\* as it was.
C24_EntryChangesByOwnFetch ==
    [][\A l \in ListIds :
          ~SameEntry(cache, cache', l)
          => \/ FetchSucceeded(last') /\ last'.list_id = l /\ hasToken
             \/ last'.op = "clear_cache" /\ last'.list_id \in {l, ""}]_vars

\* C24 witness: a fetch of L1 got no raw record while the cache holds a
\* non-empty list for L1 and an entry for L2.
C24_Witness ==
    /\ IsFetch(last) /\ last.list_id = "L1"
    /\ last.k3 = "ok" /\ last.items = <<>>
    /\ "L1" \in DOMAIN cache /\ cache["L1"] # <<>>
    /\ "L2" \in DOMAIN cache

\* The decoded text a record holds under a key, "" when it holds none.
KeyText(item, k) ==
    IF k \in DOMAIN FieldById(item.fields)
    THEN extract_text_from_rich_text(FieldById(item.fields)[k]).text ELSE ""
\* The first of the keys (a sequence) that satisfies Hit, 0 when none does.
FirstKey(keys, Hit(_)) ==
    IF \E i \in DOMAIN keys : Hit(keys[i])
    THEN CHOOSE i \in DOMAIN keys :
            Hit(keys[i]) /\ \A j \in 1..(i - 1) : ~Hit(keys[j])
    ELSE 0
\* The mapped name column is absent or yields nothing.
MappedNameEmpty(item, m) ==
    LET n == MappedName(FieldById(item.fields), FieldTextById(item.fields),
                        get_column_id(m, name_column))
    IN ~n.exc /\ n.text = ""

\* C25: a record whose mapped name column is absent or empty, that holds a
\* non-empty text under one of "name", "Name", "title", "Title" and has a
\* start date, yields a task named by the first of these keys, in that
\* order, that holds a non-empty text.
C25_FirstNonEmptyNameKey ==
    (/\ Parsed
     /\ MappedNameEmpty(call.item, ParsedMapping)
     /\ ResolvedStart(call.item, ParsedMapping).some) =>
        LET HasText(k) == KeyText(call.item, k) # ""
            first == FirstKey(NameFallbackKeys, HasText)
        IN first # 0 =>
              /\ call.res.r = "task"
              /\ call.res.task.name = KeyText(call.item, NameFallbackKeys[first])

\* The raw value a record holds under a key, Absent when it holds none.
KeyValue(item, k) ==
    IF k \in DOMAIN FieldById(item.fields)
    THEN FieldById(item.fields)[k] ELSE Absent
\* The day a date text names.
DayOf(v) == v.d

\* C26: a record with a name whose mapped start column is absent or holds
\* no date text takes its start date from the first of "date",
\* "start_date", "start", in that order, that holds a date text, whatever
\* the keys before it hold; it is rejected if and only if none does.
C26_FirstParseableStartKey ==
    (/\ Parsed
     /\ ~ResolvedName(call.item, ParsedMapping).exc
     /\ ResolvedName(call.item, ParsedMapping).text # ""
     /\ ~IsDateText(RawOf(call.item, ParsedMapping, start_date_column))) =>
        LET HasDate(k) == IsDateText(KeyValue(call.item, k))
            first == FirstKey(StartFallbackKeys, HasDate)
        IN IF first = 0 THEN call.res = NoTask
           ELSE /\ call.res.r = "task"
                /\ call.res.task.start_date
                     = DayOf(KeyValue(call.item, StartFallbackKeys[first]))

\* The keys of the record the task was resolved from: the field keys the
\* five columns are mapped to, and the fallback key that gave the name or
\* the start date.
ConsumedKeys(item, m) ==
    LET HasText(k) == KeyText(item, k) # ""
        HasDate(k) == IsDateText(KeyValue(item, k))
        n == FirstKey(NameFallbackKeys, HasText)
        d == FirstKey(StartFallbackKeys, HasDate)
    IN {get_column_id(m, c) :
           c \in {name_column, start_date_column, end_date_column,
                  category_column, notes_column}}
       \cup (IF MappedNameEmpty(item, m) /\ n # 0
             THEN {NameFallbackKeys[n]} ELSE {})
       \cup (IF ~IsDateText(RawOf(item, m, start_date_column)) /\ d # 0
             THEN {StartFallbackKeys[d]} ELSE {})
\* The decoded notes of the record, "" when it has none.
DecodedNotes(item, m) ==
    IF Truthy(RawOf(item, m, notes_column))
    THEN extract_text_from_rich_text(RawOf(item, m, notes_column)).text
    ELSE ""

\* C27: the metadata of a task holds, under its raw key, every field of
\* the record with a truthy value that was not consumed, and the decoded
\* notes under "notes" when there are any, and nothing else; the decoded
\* notes are what "notes" holds whenever there are any.
C27_MetadataIsTheRest ==
    (Parsed /\ call.res.r = "task") =>
        LET item == call.item
            m == ParsedMapping
            md == call.res.task.metadata
            notes == DecodedNotes(item, m)
            rest == {k \in DOMAIN FieldById(item.fields) \ ConsumedKeys(item, m) :
                        Truthy(KeyValue(item, k))}
        IN /\ DOMAIN md = rest \cup (IF notes # "" THEN {"notes"} ELSE {})
           /\ notes # "" => md["notes"] = Str(notes)
           /\ \A k \in rest \ {"notes"} : md[k] = KeyValue(item, k)

\* A finished application of group_tasks.
Grouped == call.fn = "group_tasks" /\ call.done
\* The value a task has in the metadata field, "Other" when it has none.
FieldOrOther(task, field) ==
    IF field \in DOMAIN task.metadata THEN task.metadata[field] ELSE Str("Other")

\* C28: group_tasks partitions its input: a task occurs in exactly one
\* group, as often as in the input, and a group holds input tasks only; the
\* tasks of a group have the value the group is named by in the metadata
\* field ("Other" when they have none) and no two groups the same name; no
\* group is empty; the start_date and end_date of a group are the least
\* start_date and the greatest end_date of its tasks.
C28_GroupsPartitionTasks ==
    Grouped =>
        LET groups == call.res
        IN /\ \A t \in Range(call.tasks) :
                 \E k \in DOMAIN groups :
                    /\ Count(groups[k].tasks, t) = Count(call.tasks, t)
                    /\ \A j \in DOMAIN groups \ {k} : t \notin Range(groups[j].tasks)
           /\ \A k \in DOMAIN groups :
                 /\ groups[k].tasks # <<>>
                 /\ Range(groups[k].tasks) \subseteq Range(call.tasks)
                 /\ \A t \in Range(groups[k].tasks) :
                       FieldOrOther(t, call.group_by) = groups[k].name
                 /\ \A j \in DOMAIN groups : groups[j].name = groups[k].name => j = k
                 /\ \E t \in Range(groups[k].tasks) :
                       groups[k].start_date = t.start_date
                 /\ \A t \in Range(groups[k].tasks) :
                       groups[k].start_date <= t.start_date
                 /\ \E t \in Range(groups[k].tasks) :
                       groups[k].end_date = t.end_date
                 /\ \A t \in Range(groups[k].tasks) :
                       groups[k].end_date >= t.end_date

\* C28 witness: three tasks went into two groups, a task without the field
\* sharing the group "Other" with a task that names it, the group running
\* from day 1 to day 3.
C28_Witness ==
    /\ Grouped /\ Len(call.tasks) = 3 /\ Len(call.res) = 2
    /\ \E k \in DOMAIN call.res :
          /\ call.res[k].name = Str("Other")
          /\ Len(call.res[k].tasks) = 2
          /\ \E t \in Range(call.res[k].tasks) : call.group_by \notin DOMAIN t.metadata
          /\ \E t \in Range(call.res[k].tasks) : call.group_by \in DOMAIN t.metadata
          /\ call.res[k].start_date = 1 /\ call.res[k].end_date = 3

\* The ids of the records the list named list_id holds.
RecordIds(list_id) ==
    {r.id : r \in IF list_id = "L1" THEN RawRecordsL1 ELSE RawRecordsL2}

\* C29: whatever /gantt commands and dashboard requests came before, every
\* task in the task cache of the application (what get_cached_tasks reads
\* and the dashboard serves) was fetched from the configured list.
C29_CacheHoldsConfiguredList ==
    \A i \in DOMAIN task_cache : task_cache[i].id \in RecordIds(slack_list_id)

\* C30: every chart file uploaded so far is deleted, except the file the
\* canvas shows and files uploaded after it; the file the canvas shows is
\* not deleted.
C30_OnlyShownAndLaterFilesRemain ==
    /\ \A f \in 1..uploaded : f \notin deleted => f >= shown
    /\ shown \notin deleted

====
